---- MODULE Spec2Model ----
(***************************************************************************)
(* The DAWG builder of dawgbuilder.py as a state machine.                  *)
(*                                                                         *)
(* Strings are sequences of one-character strings: the word "ab" is        *)
(* <<"a", "b">>.  Python's None is 0, both for node references and for     *)
(* dictionary references.  A Python dict is a sequence of entries          *)
(* [k |-> key, v |-> value] in iteration order: assigning to an existing   *)
(* key keeps its place, a new key goes to the end, del removes the entry.  *)
(* The code runs under Python 2, where items() and values() return a list  *)
(* copy, so a loop over them walks the entries the dict had when the loop  *)
(* started.                                                                *)
(***************************************************************************)
EXTENDS Integers, Sequences, FiniteSets, TLC

VARIABLES
    dawg,       \* the _Dawg object with the nodes and dicts it owns
    lastword,   \* _load's local lastword: the last word it gave to add_word
    pc,         \* "load", "finished", "written", "aborted"; "direct", "direct_finished"; "game"
    source,     \* who feeds the builder: "lines", "example", "merge" or "direct"
    filter,     \* the filter argument of build(): "nofilter" or "filter_skrafl"
    nread,      \* the number of lines read from the example file
    word,       \* the line or word the last step handled (<<>> when it handled none)
    outcome,    \* what was done with it
    stream,     \* the text written by write_text, one string per line
    added,      \* history: the words add_word has taken, as a set
    infiles,    \* _load's list of input files (source "merge"), <<>> otherwise
    board,      \* AutoPlayer._board: the covered squares, (row, col) -> tile and letter
    rack,       \* AutoPlayer._rack: the tiles of the player, a string
    lpn,        \* _generate_move's lpn: the left parts by length, or None
    axno,       \* the number of the axis at hand: rows 0..14, then columns 15..29
    axis,       \* the Axis object at hand
    candidates, \* AutoPlayer._candidates: the list of moves found
    gpc,        \* where _generate_move is: "idle" when no move is being generated
    order       \* Alphabet.order: the letters of the language

buildervars == <<dawg, lastword, pc, source, filter, nread, word, outcome, stream, added, infiles>>

genvars == <<board, rack, lpn, axno, axis, candidates, gpc, order>>

vars == <<buildervars, genvars>>

(* languages.py, line 98: Alphabet.order.  The letters outside ASCII are   *)
(* written a' dh e' i' o' u' y' th ae o: here.                             *)
IcelandicOrder ==
    << "a", "a'", "b", "d", "dh", "e", "e'", "f", "g", "h", "i", "i'", "j", "k", "l", "m",
       "n", "o", "o'", "p", "r", "s", "t", "u", "u'", "v", "x", "y", "y'", "th", "ae", "o:" >>

(* No move is being generated *)
GenIdle ==
    /\ board = <<>>
    /\ rack = <<>>
    /\ lpn = <<>>
    /\ axno = 0
    /\ axis = <<>>
    /\ candidates = <<>>
    /\ gpc = "idle"
    /\ order = IcelandicOrder

----------------------------------------------------------------------------
(* Program constants *)

MAXLEN == 48

SCRABBLE_MAXLEN == 15

None == 0

(* Bounds of the model: the number of words a build adds, and the number   *)
(* of direct calls of add_word                                             *)

MaxWords == 6

MaxCalls == 3
(* the number of lines in the input files of a merge, all files together *)
MaxLines == 4

(* The letters of the input, in collation order *)
Letters == <<"a", "b", "c", "d", "e", "g", "n", "o", "r", "s", "t">>

RECURSIVE Repeat(_, _)
Repeat(c, n) == IF n = 0 THEN <<>> ELSE <<c>> \o Repeat(c, n - 1)

(* The lines of an input file in the model: every word of one to three     *)
(* letters over a and b, and the blank line.                               *)
Vocabulary == UNION {[1..n -> {"a", "b"}] : n \in 1..3}

Lines == Vocabulary \cup {<<>>}

(* The word list of the module docstring, lines 48-59 *)
ExampleFile ==
    << <<"c", "a", "r">>, <<"c", "a", "r", "s">>, <<"c", "a", "t">>, <<"c", "a", "t", "s">>,
       <<"d", "o">>, <<"d", "o", "g">>, <<"d", "o", "g", "s">>, <<"d", "o", "n", "e">>,
       <<"e", "a", "r">>, <<"e", "a", "r", "s">>, <<"e", "a", "t">>, <<"e", "a", "t", "s">> >>

(* The words a test harness gives to add_word directly: in any order, and  *)
(* around the length limit                                                 *)
DirectWords ==
    {<<"a">>, <<"a", "b">>, <<"b">>,
     Repeat("a", MAXLEN - 1), Repeat("a", MAXLEN), Repeat("a", MAXLEN + 1)}

----------------------------------------------------------------------------
(* Python dict operations *)

HasKey(d, k) == \E i \in 1..Len(d) : d[i].k = k

GetItem(d, k) == d[CHOOSE i \in 1..Len(d) : d[i].k = k].v

SetItem(d, k, v) ==
    IF HasKey(d, k)
    THEN [i \in 1..Len(d) |-> IF d[i].k = k THEN [k |-> k, v |-> v] ELSE d[i]]
    ELSE Append(d, [k |-> k, v |-> v])

DelItem(d, k) == SelectSeq(d, LAMBDA e : e.k # k)

----------------------------------------------------------------------------
(* str() of a non-negative integer *)

Digits == <<"0", "1", "2", "3", "4", "5", "6", "7", "8", "9">>

RECURSIVE IntStr(_)
IntStr(n) == IF n < 10 THEN <<Digits[n + 1]>> ELSE IntStr(n \div 10) \o <<Digits[(n % 10) + 1]>>

(* "_".join(arr) *)
RECURSIVE Join(_)
Join(arr) ==
    IF arr = <<>> THEN <<>>
    ELSE IF Len(arr) = 1 THEN arr[1]
    ELSE arr[1] \o <<"_">> \o Join(Tail(arr))

----------------------------------------------------------------------------
(* _DawgNode *)

(* A node is [id, edges, final, strng]: edges is the reference of its      *)
(* edges dict.  The cached hash is the hash of the cached string and is    *)
(* reset with it, so the cached string stands for both.  The empty string  *)
(* <<>> is "not cached": the code tests "not self._strng", which None and  *)
(* "" both satisfy.                                                        *)

(* _DawgNode.stringify_edges: the edges of dict d appended to arr as       *)
(* prefix ":" child id, the whole joined with "_".                         *)
stringify_edges(S, d, arr) ==
    Join(arr \o [i \in 1..Len(S.heap[d]) |->
                    S.heap[d][i].k \o <<":">> \o
                    (IF S.heap[d][i].v = None THEN <<"0">>
                     ELSE IntStr(S.nodes[S.heap[d][i].v].id))])

(* A __str__ that leaves out the final flag *)
NodeStrNoFinal(S, n) ==
    IF S.nodes[n].strng # <<>> THEN S.nodes[n].strng
    ELSE stringify_edges(S, S.nodes[n].edges, <<>>)

(* _DawgNode.__str__: the value returned for node n *)
NodeStr(S, n) ==
    IF S.nodes[n].strng # <<>> THEN S.nodes[n].strng
    ELSE stringify_edges(S, S.nodes[n].edges,
                         IF S.nodes[n].final THEN <<(<<"|">>)>> ELSE <<>>)

(* _DawgNode.__str__: its effect, the string is cached *)
CacheStr(S, n) == [S EXCEPT !.nodes[n].strng = NodeStr(S, n)]

(* A reset_id that keeps the cached string *)
reset_id_cached(S, n, newid) == [S EXCEPT !.nodes[n].id = newid]

(* _DawgNode.reset_id *)
reset_id(S, n, newid) == [S EXCEPT !.nodes[n].id = newid, !.nodes[n].strng = <<>>]

----------------------------------------------------------------------------
(* _Dawg *)

RootDict == 1

(* _Dawg.__init__ *)
NewDawg ==
    [lastword |-> <<>>, lastlen |-> 0,
     heap |-> << <<>> >>,
     nodes |-> <<>>,
     dicts |-> [j \in 0..(MAXLEN - 1) |-> IF j = 0 THEN RootDict ELSE None],
     unique |-> <<>>,
     nextid |-> 1,
     err |-> "ok",
     trace |-> <<>>]

(* The history of the graph (trace): an entry for every call of _collapse, *)
(* with the dict and the items it had, and for every test of a node        *)
(* against the table of unique nodes in _collapse_branch, with the node,   *)
(* the items its edges had, and whether a node of its signature was in the *)
(* table (hit) or the node was stored                                      *)
Traced(S, ev, d, node, hit) ==
    [S EXCEPT !.trace = Append(@, [ev |-> ev, dict |-> d, node |-> node, hit |-> hit,
                                   edges |-> IF ev = "collapse" THEN S.heap[d]
                                             ELSE IF node = None THEN <<>>
                                             ELSE S.heap[S.nodes[node].edges]])]

(* A lookup that never finds the node *)
UniqueIndexMiss(S, node) == 0

(* "node in self._unique_nodes": the position of the key equal to node, or *)
(* 0.  Keys are compared by identity and then by __eq__, the equality of   *)
(* the string representations; None is equal only to None.                 *)
UniqueIndex(S, node) ==
    LET hit(i) == IF node = None THEN S.unique[i].k = None
                  ELSE /\ S.unique[i].k # None
                       /\ \/ S.unique[i].k = node
                          \/ NodeStr(S, S.unique[i].k) = NodeStr(S, node)
    IN IF \E i \in 1..Len(S.unique) : hit(i)
       THEN CHOOSE i \in 1..Len(S.unique) : hit(i) /\ \A j \in 1..(i - 1) : ~hit(j)
       ELSE 0

(* A canonicalization that finds the node generated before and leaves the *)
(* edge as it is                                                           *)
CanonicalizeNoReplace(S, d, prefix, node) ==
    LET S1 == IF node = None THEN S ELSE CacheStr(S, node)
    IN IF UniqueIndex(S1, node) # 0 THEN S1
       ELSE [S1 EXCEPT !.unique = Append(@, [k |-> node, v |-> node])]

(* _collapse_branch, lines 231-241: replace the edge by an edge to the     *)
(* node of the same signature generated before, or store this node.        *)
Canonicalize(S, d, prefix, node) ==
    LET S1 == IF node = None THEN S ELSE CacheStr(S, node)
        ix == UniqueIndex(S1, node)
    IN IF ix # 0
       THEN Traced([S1 EXCEPT !.heap[d] = SetItem(@, prefix, S1.unique[ix].v)],
                   "lookup", d, node, TRUE)
       ELSE Traced([S1 EXCEPT !.unique = Append(@, [k |-> node, v |-> node])],
                   "lookup", d, node, FALSE)

(* A chain collapse that forgets the "|" of a final node *)
CollapseChainNoMark(S, d, prefix, node) ==
    LET di == S.heap[S.nodes[node].edges]
        tail == di[1].k
        lastd == di[1].v
    IN Canonicalize([S EXCEPT !.heap[d] = SetItem(DelItem(@, prefix), prefix \o tail, lastd)],
                    d, prefix \o tail, lastd)

(* A chain collapse that puts the "|" of a final node after the tail *)
CollapseChainMarkLast(S, d, prefix, node) ==
    LET di == S.heap[S.nodes[node].edges]
        tail == IF S.nodes[node].final THEN di[1].k \o <<"|">> ELSE di[1].k
        lastd == di[1].v
    IN Canonicalize([S EXCEPT !.heap[d] = SetItem(DelItem(@, prefix), prefix \o tail, lastd)],
                    d, prefix \o tail, lastd)

(* _collapse_branch, lines 215-229: a node with one child is taken out and *)
(* its edge label is appended to the label of the edge that led to it,     *)
(* after a "|" when the node is final.                                     *)
CollapseChain(S, d, prefix, node) ==
    LET di == S.heap[S.nodes[node].edges]
        tail == IF S.nodes[node].final THEN <<"|">> \o di[1].k ELSE di[1].k
        lastd == di[1].v
    IN Canonicalize([S EXCEPT !.heap[d] = SetItem(DelItem(@, prefix), prefix \o tail, lastd)],
                    d, prefix \o tail, lastd)

(* A leaf that is left in place *)
CollapseLeafKept(S, d, prefix, node) ==
    IF ~S.nodes[node].final THEN [S EXCEPT !.err = "AssertionError"] ELSE S

(* _collapse_branch, lines 200-208: a node without edges must be final;    *)
(* the parent points to None instead.                                      *)
CollapseLeaf(S, d, prefix, node) ==
    IF ~S.nodes[node].final THEN [S EXCEPT !.err = "AssertionError"]
    ELSE [S EXCEPT !.heap[d] = SetItem(@, prefix, None)]

(* A _collapse_branch without the collapse of chains *)
collapse_branch_no_chain(S, d, prefix, node) ==
    IF Len(S.heap[S.nodes[node].edges]) = 0 THEN CollapseLeaf(S, d, prefix, node)
    ELSE Canonicalize(S, d, prefix, node)

(* _Dawg._collapse_branch(parent, prefix, node), parent being dict d *)
collapse_branch(S, d, prefix, node) ==
    LET n == Len(S.heap[S.nodes[node].edges])
    IN IF n = 0 THEN CollapseLeaf(S, d, prefix, node)
       ELSE IF n = 1 THEN CollapseChain(S, d, prefix, node)
       ELSE Canonicalize(S, d, prefix, node)

(* _Dawg._collapse(edges): the loop over the items the dict had when the   *)
(* loop started, from item i on                                            *)
RECURSIVE CollapseItems(_, _, _, _)
CollapseItems(S, d, items, i) ==
    IF i > Len(items) \/ S.err # "ok" THEN S
    ELSE CollapseItems(IF items[i].v # None
                       THEN collapse_branch(S, d, items[i].k, items[i].v)
                       ELSE S,
                       d, items, i + 1)

collapse(S, d) == CollapseItems(Traced(S, "collapse", d, None, FALSE), d, S.heap[d], 1)

(* A loop that goes up from divergence + 1 to j *)
RECURSIVE CollapseUp(_, _, _)
CollapseUp(S, j, divergence) ==
    IF j <= divergence \/ S.err # "ok" THEN S
    ELSE CollapseUp(IF S.dicts[divergence + 1] # None /\ S.heap[S.dicts[divergence + 1]] # <<>>
                    THEN [collapse(S, S.dicts[divergence + 1]) EXCEPT !.dicts[divergence + 1] = None]
                    ELSE S,
                    j, divergence + 1)

(* _Dawg._collapse_to(divergence): the loop from j down to divergence + 1. *)
(* "if self._dicts[j]" holds for a dict that is not None and not empty.    *)
RECURSIVE CollapseDown(_, _, _)
CollapseDown(S, j, divergence) ==
    IF j <= divergence \/ S.err # "ok" THEN S
    ELSE CollapseDown(IF S.dicts[j] # None /\ S.heap[S.dicts[j]] # <<>>
                      THEN [collapse(S, S.dicts[j]) EXCEPT !.dicts[j] = None]
                      ELSE S,
                      j - 1, divergence)

collapse_to(S, divergence) == CollapseDown(S, S.lastlen, divergence)

(* add_word, lines 277-279: the number of letters in common with the last  *)
(* word                                                                    *)
(* A comparison that never reaches the last letter of the word *)
RECURSIVE CommonPrefixShort(_, _, _)
CommonPrefixShort(S, wrd, i) ==
    IF i < Len(wrd) - 1 /\ i < S.lastlen /\ wrd[i + 1] = S.lastword[i + 1]
    THEN CommonPrefixShort(S, wrd, i + 1)
    ELSE i

RECURSIVE CommonPrefix(_, _, _)
CommonPrefix(S, wrd, i) ==
    IF i < Len(wrd) /\ i < S.lastlen /\ wrd[i + 1] = S.lastword[i + 1]
    THEN CommonPrefix(S, wrd, i + 1)
    ELSE i

(* add_word, lines 294-296: the node for the last letter of the word is    *)
(* marked final; m is the position of a node among the k made              *)
FinalMark(m, k) == m = k

(* add_word, lines 286-296: the rest of the word from letter i on, added   *)
(* below dict d.  The loop makes one node per letter, each with a new      *)
(* edges dict: the m-th node made hangs under letter i + m in the dict of  *)
(* the node before it (in d for the first), its edges dict becomes         *)
(* _dicts[i + m], and the node made last is marked final.  When no letter  *)
(* is left (nd is None) nothing is marked.                                 *)
AddRest(S, wrd, i, d) ==
    LET k == Len(wrd) - i
        n0 == Len(S.nodes)
        h0 == Len(S.heap)
        fresh == [m \in 1..k |-> [id |-> S.nextid + m - 1, edges |-> h0 + m,
                                  final |-> FinalMark(m, k), strng |-> <<>>]]
        below == [m \in 1..k |-> IF m < k THEN <<[k |-> <<wrd[i + m + 1]>>, v |-> n0 + m + 1]>>
                                 ELSE <<>>]
    IN IF k <= 0 THEN S
       ELSE [S EXCEPT !.nodes = @ \o fresh,
                      !.heap = [@ EXCEPT ![d] = SetItem(@, <<wrd[i + 1]>>, n0 + 1)] \o below,
                      !.dicts = [j \in DOMAIN @ |-> IF j > i /\ j <= i + k THEN h0 + (j - i) ELSE @[j]],
                      !.nextid = @ + k]

(* add_word, lines 271-274: the sanity check on the length *)
TooLong(wrd) == Len(wrd) >= MAXLEN

(* _Dawg.add_word(wrd) *)
add_word(S, wrd) ==
    IF TooLong(wrd) THEN [S EXCEPT !.err = "ValueError"]
    ELSE LET i == CommonPrefix(S, wrd, 0)
             S1 == collapse_to(S, i)
         IN IF S1.err # "ok" THEN S1
            ELSE [AddRest(S1, wrd, i, S1.dicts[i])
                    EXCEPT !.lastword = wrd, !.lastlen = Len(wrd)]

(* finish, lines 309-313: the nodes of the table renumbered from ix on, in *)
(* the order of iteration                                                  *)
RECURSIVE Renumber(_, _, _)
Renumber(S, i, ix) ==
    IF i > Len(S.unique) THEN S
    ELSE IF S.unique[i].v # None
    THEN Renumber(reset_id(S, S.unique[i].v, ix), i + 1, ix + 1)
    ELSE Renumber(S, i + 1, ix)

(* _Dawg.finish() *)
finish(S) ==
    LET S1 == collapse_to(S, 0)
        S2 == IF S1.err # "ok" THEN S1
              ELSE collapse([S1 EXCEPT !.lastword = <<>>, !.lastlen = 0], RootDict)
    IN IF S2.err # "ok" THEN S2 ELSE Renumber(S2, 1, 2)

(* The nodes of the table that are not None, in the order of iteration *)
TableNodes(S) ==
    LET vals == [i \in 1..Len(S.unique) |-> S.unique[i].v]
    IN SelectSeq(vals, LAMBDA n : n # None)

(* _Dawg.write_text(stream): the lines written *)
write_text(S) ==
    <<stringify_edges(S, RootDict, <<>>)>> \o
    [i \in 1..Len(TableNodes(S)) |-> NodeStr(S, TableNodes(S)[i])]

(* _Dawg.write_text(stream): its effect on the nodes, whose strings are    *)
(* cached by __str__                                                       *)
RECURSIVE CacheAll(_, _)
CacheAll(S, i) ==
    IF i > Len(TableNodes(S)) THEN S ELSE CacheAll(CacheStr(S, TableNodes(S)[i]), i + 1)

----------------------------------------------------------------------------
(* DawgBuilder *)

(* locale.strcoll in the default "C" locale: -1, 0 or 1 as a is below,     *)
(* equal to or above b in the lexicographic order of the letters           *)
LetterIndex(c) == CHOOSE i \in 1..Len(Letters) : Letters[i] = c

RECURSIVE strcoll(_, _)
strcoll(a, b) ==
    IF a = <<>> THEN (IF b = <<>> THEN 0 ELSE -1)
    ELSE IF b = <<>> THEN 1
    ELSE IF a[1] = b[1] THEN strcoll(Tail(a), Tail(b))
    ELSE IF LetterIndex(a[1]) < LetterIndex(b[1]) THEN -1 ELSE 1

(* A test that lets a line of MAXLEN letters through *)
ValidWordUpTo(line) == line # <<>> /\ Len(line) <= MAXLEN

(* _InFile.read_word, line 556: a line is a valid word when it is not      *)
(* blank and shorter than MAXLEN                                           *)
ValidWord(line) == line # <<>> /\ Len(line) < MAXLEN

(* filter_skrafl / nofilter *)
filter_skrafl(w) == ~(Len(w) > SCRABBLE_MAXLEN)

Passes(f, w) == IF f = "filter_skrafl" THEN filter_skrafl(w) ELSE TRUE

(* A test that catches the duplicate only *)
NotAscendingEqual(last, w) == last # <<>> /\ strcoll(last, w) = 0

(* _load, lines 625-632: the word is not above the last word added *)
NotAscending(last, w) == last # <<>> /\ strcoll(last, w) >= 0

----------------------------------------------------------------------------
(* The state machine *)

Init ==
    /\ dawg = NewDawg
    /\ lastword = <<>>
    /\ source \in {"lines", "example", "direct"}
    /\ pc = IF source = "direct" THEN "direct" ELSE "load"
    /\ filter = "nofilter"
    /\ nread = 0
    /\ word = <<>>
    /\ outcome = "none"
    /\ stream = <<>>
    /\ added = {}
    /\ infiles = <<>>
    /\ GenIdle

(* One line of an input file.  read_word (lines 541-559) discards a line   *)
(* that is no valid word; a valid word is what the body of _load's loop,   *)
(* lines 623-637, handles: it is reported when it is below the last word   *)
(* added, counted as a duplicate when equal to it, dropped when the filter *)
(* refuses it, and given to add_word otherwise.                            *)
HandleLine(line) ==
    /\ word' = line
    /\ UNCHANGED <<source, filter, stream>>
    /\ IF ~ValidWord(line)
       THEN /\ outcome' = "discarded"
            /\ UNCHANGED <<dawg, lastword, pc, added>>
       ELSE IF NotAscending(lastword, line)
       THEN /\ outcome' = IF strcoll(lastword, line) > 0 THEN "out_of_order" ELSE "duplicate"
            /\ UNCHANGED <<dawg, lastword, pc, added>>
       ELSE IF ~Passes(filter, line)
       THEN /\ outcome' = "filtered"
            /\ UNCHANGED <<dawg, lastword, pc, added>>
       ELSE LET S == add_word(dawg, line)
            IN /\ dawg' = S
               /\ outcome' = IF S.err = "ok" THEN "added" ELSE S.err
               /\ pc' = IF S.err = "ok" THEN "load" ELSE "aborted"
               /\ lastword' = IF S.err = "ok" THEN line ELSE lastword
               /\ added' = IF S.err = "ok" THEN added \cup {line} ELSE added

(* The lines an input file of a merge can hold: a blank line, three short  *)
(* words and a word longer than SCRABBLE_MAXLEN                            *)
MergeLines == {<<>>, <<"a">>, Repeat("a", SCRABBLE_MAXLEN + 1), <<"a", "b">>, <<"b">>}

(* _load's docstring, lines 581-582: the words appear in ascending order   *)
(* within a file (a word may be repeated)                                  *)
Ascending(content) ==
    \A i, j \in 1..Len(content) :
        (i < j /\ ValidWord(content[i]) /\ ValidWord(content[j]))
            => strcoll(content[i], content[j]) <= 0

SortedFiles(n) == {content \in [1..n -> MergeLines] : Ascending(content)}

(* The characters that end a line *)
CR == "\r"

LF == "\n"

(* _InFile.read_word, lines 551-555: a line without the CR/LF or the LF at *)
(* its end                                                                 *)
Chop(line) ==
    LET n == Len(line)
    IN IF n >= 2 /\ line[n - 1] = CR /\ line[n] = LF THEN SubSeq(line, 1, n - 2)
       ELSE IF n >= 1 /\ line[n] = LF THEN SubSeq(line, 1, n - 1)
       ELSE line

(* _InFile.read_word: lines are read until one is a valid word (_nxt) or   *)
(* the file ends (_eof).  pos counts the lines read; no word is <<>>.      *)
RECURSIVE read_word(_)
read_word(f) ==
    IF f.pos >= Len(f.content) THEN [f EXCEPT !.eof = TRUE]
    ELSE LET line == Chop(f.content[f.pos + 1])
         IN IF ValidWord(line) THEN [f EXCEPT !.pos = @ + 1, !.nxt = line]
            ELSE read_word([f EXCEPT !.pos = @ + 1])

(* _InFile.__init__ *)
OpenFile(content) == read_word([content |-> content, pos |-> 0, nxt |-> <<>>, eof |-> FALSE])

has_word(f) == ~f.eof

next_word(f) == IF f.eof THEN <<>> ELSE f.nxt

(* A search that takes the first file that has a word *)
RECURSIVE FindSmallestFirst(_, _, _, _)
FindSmallestFirst(files, i, smallest, incount) ==
    IF i > Len(files) THEN [files |-> files, smallest |-> smallest, incount |-> incount]
    ELSE IF has_word(files[i]) /\ smallest = 0 THEN FindSmallestFirst(files, i + 1, i, incount)
    ELSE FindSmallestFirst(files, i + 1, smallest, incount)

(* _load, lines 602-618: the file whose next word is the smallest (0 when  *)
(* no file has a word).  A file whose next word equals the smallest so far *)
(* is moved on to its next word.                                           *)
RECURSIVE FindSmallest(_, _, _, _)
FindSmallest(files, i, smallest, incount) ==
    IF i > Len(files) THEN [files |-> files, smallest |-> smallest, incount |-> incount]
    ELSE IF ~has_word(files[i]) THEN FindSmallest(files, i + 1, smallest, incount)
    ELSE IF smallest = 0 THEN FindSmallest(files, i + 1, i, incount)
    ELSE LET cmp == strcoll(next_word(files[i]), next_word(files[smallest]))
         IN IF cmp = 0
            THEN FindSmallest([files EXCEPT ![i] = read_word(@)], i + 1, smallest, incount + 1)
            ELSE IF cmp < 0 THEN FindSmallest(files, i + 1, i, incount)
            ELSE FindSmallest(files, i + 1, smallest, incount)

(* A round of the merge loop that does not move on in the file it took the *)
(* word from                                                               *)
MergeWordStay ==
    /\ pc = "load"
    /\ source = "merge"
    /\ LET r == FindSmallest(infiles, 1, 0, nread)
       IN /\ r.smallest # 0
          /\ HandleLine(next_word(r.files[r.smallest]))
          /\ nread' = r.incount + 1
          /\ infiles' = r.files
    /\ UNCHANGED genvars

(* _load, lines 601-642: one round of the merge loop that finds a word *)
MergeWord ==
    /\ pc = "load"
    /\ source = "merge"
    /\ LET r == FindSmallest(infiles, 1, 0, nread)
       IN /\ r.smallest # 0
          /\ HandleLine(next_word(r.files[r.smallest]))
          /\ nread' = r.incount + 1
          /\ infiles' = [r.files EXCEPT ![r.smallest] = read_word(@)]
    /\ UNCHANGED genvars

(* A build whose input file holds any lines *)
LoadLine(line) ==
    /\ pc = "load"
    /\ source = "lines"
    /\ Cardinality(added) < MaxWords
    /\ HandleLine(line)
    /\ UNCHANGED <<nread, infiles>>
    /\ UNCHANGED genvars

(* A build whose input file is the word list of the docstring *)
LoadExample ==
    /\ pc = "load"
    /\ source = "example"
    /\ nread < Len(ExampleFile)
    /\ HandleLine(ExampleFile[nread + 1])
    /\ nread' = nread + 1
    /\ UNCHANGED infiles
    /\ UNCHANGED genvars

(* _load, line 649: all files are exhausted *)
LoadFinish ==
    /\ pc = "load"
    /\ source = "example" => nread = Len(ExampleFile)
    /\ source = "merge" => FindSmallest(infiles, 1, 0, nread).smallest = 0
    /\ LET S == finish(dawg)
       IN /\ dawg' = S
          /\ pc' = IF S.err = "ok" THEN "finished" ELSE "aborted"
          /\ outcome' = IF S.err = "ok" THEN "finish" ELSE S.err
    /\ word' = <<>>
    /\ UNCHANGED <<lastword, source, filter, nread, stream, added, infiles>>
    /\ UNCHANGED genvars

(* _output_text *)
OutputText ==
    /\ pc = "finished"
    /\ stream' = write_text(dawg)
    /\ dawg' = CacheAll(dawg, 1)
    /\ pc' = "written"
    /\ outcome' = "write_text"
    /\ UNCHANGED <<lastword, source, filter, nread, word, added, infiles>>
    /\ UNCHANGED genvars

(* A direct call of _Dawg.add_word.  The ValueError is raised before       *)
(* anything is changed, and the caller goes on.                            *)
DirectAdd(wrd) ==
    /\ pc = "direct"
    /\ nread < MaxCalls
    /\ nread' = nread + 1
    /\ word' = wrd
    /\ LET S == add_word(dawg, wrd)
       IN /\ dawg' = IF S.err = "ValueError" THEN dawg ELSE S
          /\ outcome' = IF S.err = "ok" THEN "added" ELSE S.err
          /\ pc' = IF S.err \in {"ok", "ValueError"} THEN "direct" ELSE "aborted"
          /\ added' = IF S.err = "ok" THEN added \cup {wrd} ELSE added
    /\ UNCHANGED <<lastword, source, filter, stream, infiles>>
    /\ UNCHANGED genvars

(* A direct call of _Dawg.finish *)
DirectFinish ==
    /\ pc = "direct"
    /\ LET S == finish(dawg)
       IN /\ dawg' = S
          /\ pc' = IF S.err = "ok" THEN "direct_finished" ELSE "aborted"
          /\ outcome' = IF S.err = "ok" THEN "finish" ELSE S.err
    /\ word' = <<>>
    /\ UNCHANGED <<lastword, source, filter, nread, stream, added, infiles>>
    /\ UNCHANGED genvars

----------------------------------------------------------------------------
(* The finished graph, as the module docstring (lines 24-42) reads it: a   *)
(* node per table entry, edges labelled with prefixes in which "|" says    *)
(* that the letter before it ends a word, child 0 the end of a word.       *)

Done == pc \in {"finished", "written"}

Retained == {TableNodes(dawg)[i] : i \in 1..Len(TableNodes(dawg))}

EdgesOf(n) == dawg.heap[dawg.nodes[n].edges]

(* The edge dicts of the graph: the root's and those of the table's nodes *)
GraphDicts == {RootDict} \cup {dawg.nodes[n].edges : n \in Retained}

GraphEdges == UNION {{dawg.heap[d][i] : i \in 1..Len(dawg.heap[d])} : d \in GraphDicts}

ChildId(S, v) == IF v = None THEN 0 ELSE S.nodes[v].id

(* Following the edges of dict d letter by letter spells w and ends at a   *)
(* final position.  Walk is within an edge: p is the position in the label *)
(* and q the number of letters of w spelled so far.                        *)
RECURSIVE Accepts(_, _, _), Walk(_, _, _, _, _)
Walk(S, e, p, w, q) ==
    IF p > Len(e.k)
    THEN IF q = Len(w) THEN e.v = None \/ S.nodes[e.v].final
         ELSE e.v # None /\ Accepts(S, S.nodes[e.v].edges, SubSeq(w, q + 1, Len(w)))
    ELSE IF e.k[p] = "|" THEN q = Len(w) \/ Walk(S, e, p + 1, w, q)
    ELSE q < Len(w) /\ w[q + 1] = e.k[p] /\ Walk(S, e, p + 1, w, q + 1)

Accepts(S, d, w) == \E i \in 1..Len(S.heap[d]) : Walk(S, S.heap[d][i], 1, w, 0)

(* The set of all words that end at a final position, from dict d on *)
Strip(lab) == SelectSeq(lab, LAMBDA c : c # "|")

MarkedPrefixes(lab) == {Strip(SubSeq(lab, 1, p)) : p \in {q \in 1..Len(lab) : lab[q] = "|"}}

RECURSIVE LangOf(_, _)
LangOf(S, d) ==
    UNION {LET e == S.heap[d][i]
           IN MarkedPrefixes(e.k) \cup
              (IF e.v = None THEN {Strip(e.k)}
               ELSE (IF S.nodes[e.v].final THEN {Strip(e.k)} ELSE {}) \cup
                    {Strip(e.k) \o w : w \in LangOf(S, S.nodes[e.v].edges)})
           : i \in 1..Len(S.heap[d])}

(* The words of a set as tuples *)
AsTuples(ws) == {[i \in 1..Len(w) |-> w[i]] : w \in ws}

----------------------------------------------------------------------------
(* C1 - Round-trip membership: after a build has finished, every word that *)
(* was given to add_word (they arrive strictly ascending) is accepted by   *)
(* the graph: the edge labels from the root spell it and it ends at a "|"  *)
(* marker, at the sink or at a final node.                                 *)
C1_RoundTrip == Done => \A w \in added : Accepts(dawg, RootDict, w)

(* A finished build of at least three words in which one word ends at a    *)
(* marker inside a label, one at the sink and one at a final node *)
C1_Witness ==
    /\ Done
    /\ Cardinality(added) >= 3
    /\ \E e \in GraphEdges : \E p \in 1..Len(e.k) : e.k[p] = "|"
    /\ \E e \in GraphEdges : e.v = None
    /\ \E e \in GraphEdges : e.v # None /\ dawg.nodes[e.v].final

(* C2 - No false positives: after a build has finished, every word the     *)
(* graph accepts is a word that was given to add_word.                     *)
C2_NoFalsePositives == Done => LangOf(dawg, RootDict) \subseteq AsTuples(added)

(* A finished build whose graph has a collapsed chain, an edge to the sink *)
(* and a node that two edges share *)
C2_Witness ==
    /\ Done
    /\ \E e \in GraphEdges : Len(Strip(e.k)) > 1
    /\ \E e \in GraphEdges : e.v = None
    /\ \E d1, d2 \in GraphDicts : \E i \in 1..Len(dawg.heap[d1]), j \in 1..Len(dawg.heap[d2]) :
           /\ <<d1, i>> # <<d2, j>>
           /\ dawg.heap[d1][i].v # None
           /\ dawg.heap[d1][i].v = dawg.heap[d2][j].v

(* The (label, child id) pairs of a node's edges *)
EdgeSet(n) == {<<EdgesOf(n)[i].k, ChildId(dawg, EdgesOf(n)[i].v)>> : i \in 1..Len(EdgesOf(n))}

(* The number of edges of the graph that lead to node n *)
InDegree(n) ==
    Cardinality(UNION {{<<d, i>> : i \in {j \in 1..Len(dawg.heap[d]) : dawg.heap[d][j].v = n}}
                       : d \in GraphDicts})

(* C3 - Minimization: after finish() no two distinct nodes of the table of *)
(* unique nodes have the same final flag and the same (label, child id)    *)
(* edges.                                                                  *)
C3_Minimization ==
    Done => \A m, n \in Retained :
               (dawg.nodes[m].final = dawg.nodes[n].final /\ EdgeSet(m) = EdgeSet(n)) => m = n

(* A finished build in which a node was merged with an equal one: two      *)
(* edges lead to the same node, which itself has an edge to a table node   *)
C3_Witness ==
    /\ Done
    /\ Cardinality(Retained) >= 2
    /\ \E n \in Retained : InDegree(n) >= 2 /\ \E i \in 1..Len(EdgesOf(n)) : EdgesOf(n)[i].v # None

(* C4 - Collapse completeness: after finish() no node of the table has     *)
(* exactly one outgoing edge.                                              *)
C4_CollapseComplete == Done => \A n \in Retained : Len(EdgesOf(n)) # 1

(* A finished build in which chains were folded into labels, one of them   *)
(* on an edge that leads to a table node *)
C4_Witness ==
    /\ Done
    /\ \E e \in GraphEdges : Len(Strip(e.k)) > 1 /\ e.v # None
    /\ \E e \in GraphEdges : Len(Strip(e.k)) > 2

(* C5 - No trivial final children: after finish() no edge of the root or   *)
(* of a table node leads to a node that is final and has no edges; such a  *)
(* child was replaced by the sink.                                         *)
C5_NoTrivialFinalChild ==
    Done => \A e \in GraphEdges :
               e.v # None => ~(dawg.nodes[e.v].final /\ dawg.heap[dawg.nodes[e.v].edges] = <<>>)

(* A finished build with a one-letter edge to the sink, beside an edge to  *)
(* a final node that kept its edges *)
C5_Witness ==
    /\ Done
    /\ \E e \in GraphEdges : e.v = None /\ Len(e.k) = 1
    /\ \E e \in GraphEdges : e.v # None /\ dawg.nodes[e.v].final

(* C6 - Label well-formedness: after finish() every edge label is not      *)
(* empty and neither begins nor ends with "|".                             *)
C6_LabelsWellFormed ==
    Done => \A e \in GraphEdges : e.k # <<>> /\ e.k[1] # "|" /\ e.k[Len(e.k)] # "|"

(* A finished build with a label that holds two markers *)
C6_Witness ==
    /\ Done
    /\ \E e \in GraphEdges : Cardinality({p \in 1..Len(e.k) : e.k[p] = "|"}) >= 2

(* The child ids a line of the text names: the numbers after the colons *)
DigitValue(c) == (CHOOSE i \in 1..Len(Digits) : Digits[i] = c) - 1

IsDigit(c) == \E i \in 1..Len(Digits) : Digits[i] = c

RECURSIVE NumberAt(_, _, _)
NumberAt(line, p, acc) ==
    IF p <= Len(line) /\ IsDigit(line[p])
    THEN NumberAt(line, p + 1, 10 * acc + DigitValue(line[p]))
    ELSE acc

IdsIn(line) == {NumberAt(line, p + 1, 0) : p \in {q \in 1..Len(line) : line[q] = ":"}}

(* The line write_text has to write for node n: its final flag and edges   *)
(* with the ids the children have now                                      *)
LineOf(n) ==
    stringify_edges(dawg, dawg.nodes[n].edges, IF dawg.nodes[n].final THEN <<(<<"|">>)>> ELSE <<>>)

(* C7 - Node numbering without dangling references: after finish() the     *)
(* i-th node of the table, in iteration order, has id i + 1, so the ids    *)
(* are distinct and exactly 2..M, and every edge leads to the sink or to a *)
(* table node; write_text writes the root on line 1 and on line k the node *)
(* with id k, and every child id in the text is 0 or the number of a node  *)
(* line that was written.                                                  *)
C7_Numbering ==
    /\ Done =>
          /\ \A i \in 1..Len(TableNodes(dawg)) : dawg.nodes[TableNodes(dawg)[i]].id = i + 1
          /\ \A i, j \in 1..Len(TableNodes(dawg)) : TableNodes(dawg)[i] = TableNodes(dawg)[j] => i = j
          /\ \A e \in GraphEdges : e.v = None \/ e.v \in Retained
    /\ pc = "written" =>
          /\ Len(stream) = Len(TableNodes(dawg)) + 1
          /\ stream[1] = stringify_edges(dawg, RootDict, <<>>)
          /\ \A k \in 2..Len(stream) :
                \E n \in Retained : dawg.nodes[n].id = k /\ stream[k] = LineOf(n)
          /\ \A k \in 1..Len(stream) : IdsIn(stream[k]) \subseteq {0} \cup 2..Len(stream)

(* A written graph of at least three lines in which a node line names      *)
(* another node line, and whose nodes were renumbered                      *)
C7_Witness ==
    /\ pc = "written"
    /\ Len(stream) >= 3
    /\ \E k \in 2..Len(stream) : IdsIn(stream[k]) \ {0} # {}
    /\ \E n \in Retained : dawg.nodes[n].id # n

(* The (label, child) pairs of a dict *)
Pairs(d) == {<<dawg.heap[d][i].k, dawg.heap[d][i].v>> : i \in 1..Len(dawg.heap[d])}

(* C8 - The docstring example: the build of car, cars, cat, cats, do, dog, *)
(* dogs, done, ear, ears, eat, eats ends with a root and two table nodes   *)
(* X and Y: the root has the edges do -> Y, ca -> X and ea -> X; X is not  *)
(* final and has the edges t|s and r|s to the sink; Y is final and has the *)
(* edges g|s and ne to the sink.                                           *)
C8_Example ==
    (source = "example" /\ Done) =>
        /\ Cardinality(Retained) = 2
        /\ \E X, Y \in Retained :
              /\ X # Y
              /\ Pairs(RootDict) = {<<(<<"d", "o">>), Y>>, <<(<<"c", "a">>), X>>, <<(<<"e", "a">>), X>>}
              /\ Len(dawg.heap[RootDict]) = 3
              /\ ~dawg.nodes[X].final
              /\ Pairs(dawg.nodes[X].edges) = {<<(<<"t", "|", "s">>), None>>, <<(<<"r", "|", "s">>), None>>}
              /\ Len(EdgesOf(X)) = 2
              /\ dawg.nodes[Y].final
              /\ Pairs(dawg.nodes[Y].edges) = {<<(<<"g", "|", "s">>), None>>, <<(<<"n", "e">>), None>>}
              /\ Len(EdgesOf(Y)) = 2

(* The example was read to its end, all twelve words were added, and the   *)
(* graph was written as three lines                                        *)
C8_Witness ==
    /\ source = "example"
    /\ pc = "written"
    /\ AsTuples(added) = {ExampleFile[i] : i \in 1..Len(ExampleFile)}
    /\ Len(stream) = 3

(* C9 (as amended) - An out-of-order word is reported and skipped by       *)
(* _load: when the loop of _load meets a valid word that is below the last *)
(* word it added, it prints the warning and does not call add_word, so the *)
(* word is not inserted, the builder is left as it was and the set of      *)
(* words the graph accepts is unchanged.                                   *)
C9_LoadSkipsOutOfOrder ==
    [][(/\ pc = "load" /\ pc' = "load"
        /\ ValidWord(word')
        /\ lastword # <<>>
        /\ strcoll(lastword, word') > 0)
       => (/\ outcome' = "out_of_order"
           /\ dawg' = dawg /\ added' = added /\ lastword' = lastword
           /\ LangOf(dawg', RootDict) = LangOf(dawg, RootDict))]_vars

(* _load has just skipped a word that is below the last of the two or more *)
(* words it added, and that is not among them *)
C9_Witness ==
    /\ pc = "load"
    /\ outcome = "out_of_order"
    /\ Cardinality(added) >= 2
    /\ word \notin added

(* C9 (as claimed) - Whenever a word smaller than its predecessor reaches  *)
(* the builder, be it through _load or through add_word itself, the        *)
(* builder fails with OutOfOrder: the word is not inserted and the set of  *)
(* words the graph accepts is unchanged.                                   *)
C9_Original ==
    [][(/\ pc \in {"load", "direct"} /\ pc' = pc
        /\ ValidWord(word')
        /\ nread' # nread \/ source = "lines"
        /\ dawg.lastword # <<>>
        /\ strcoll(dawg.lastword, word') > 0)
       => (/\ outcome' # "added"
           /\ LangOf(dawg', RootDict) = LangOf(dawg, RootDict))]_vars

(* C10 (as claimed) - add_word takes every word of at most MAXLEN = 48     *)
(* letters and raises its error exactly when the word is longer than       *)
(* MAXLEN.                                                                 *)
C10_Original ==
    (pc = "direct" /\ outcome \in {"added", "ValueError"}) =>
        (outcome = "ValueError" <=> Len(word) > MAXLEN)

(* C11: a word equal to the one before it is skipped silently.  A call of  *)
(* add_word with the word of the preceding call returns normally and       *)
(* leaves the whole builder as it was: no node, no dict entry, no final    *)
(* flag and no id is changed, so whatever graph finish() makes of it is    *)
(* the graph built without the repeat.  In _load the repeated word is      *)
(* counted as a duplicate and add_word is not called.                      *)
C11_DuplicateSkipped ==
    [][/\ (/\ pc = "direct" /\ pc' = "direct" /\ nread' # nread /\ word' = dawg.lastword)
          => (/\ outcome' = "added"
              /\ dawg' = dawg
              /\ added' = added)
       /\ (/\ pc = "load" /\ pc' = "load" /\ ValidWord(word') /\ word' = lastword)
          => (/\ outcome' = "duplicate"
              /\ dawg' = dawg
              /\ added' = added)]_vars

(* a build that has added two words and then met the second one again *)
C11_Witness ==
    /\ pc = "load"
    /\ outcome = "duplicate"
    /\ word = lastword
    /\ word = dawg.lastword
    /\ Cardinality(added) >= 2

(* the valid words of the input files *)
StreamWords ==
    UNION {{infiles[i].content[j] : j \in {k \in 1..Len(infiles[i].content) : ValidWord(infiles[i].content[k])}}
           : i \in 1..Len(infiles)}

(* C12: when every input file is in ascending order, each word _load gives *)
(* to add_word is above all the words it gave before (so no word is given  *)
(* twice), and when the merge is finished the words given are exactly the  *)
(* words of the files that pass the filter.                                *)
C12_MergeCollator ==
    /\ [][(pc = "load" /\ outcome' = "added")
            => (/\ word' \notin added
                /\ added' = added \cup {word'}
                /\ \A w \in added : strcoll(w, word') < 0)]_vars
    /\ [](Done => added = {w \in StreamWords : Passes(filter, w)})

(* a finished merge in which a word was in two files and twice in one of   *)
(* them, and the filter has dropped a word                                 *)
C12_Witness ==
    /\ Done
    /\ source = "merge"
    /\ filter = "filter_skrafl"
    /\ Cardinality(StreamWords) > Cardinality(added)
    /\ \E i, j \in 1..Len(infiles) : \E w \in added :
          /\ i # j
          /\ \E k \in 1..Len(infiles[j].content) : infiles[j].content[k] = w
          /\ \E k, m \in 1..Len(infiles[i].content) :
                k # m /\ infiles[i].content[k] = w /\ infiles[i].content[m] = w

Next ==
    \/ \E line \in Lines : LoadLine(line)
    \/ LoadExample
    \/ LoadFinish
    \/ OutputText
    \/ \E wrd \in DirectWords : DirectAdd(wrd)
    \/ DirectFinish

Spec == Init /\ [][Next]_vars

(* A build that merges three input files, each in ascending order *)
MergeInit ==
    /\ dawg = NewDawg
    /\ lastword = <<>>
    /\ source = "merge"
    /\ pc = "load"
    /\ filter \in {"nofilter", "filter_skrafl"}
    /\ nread = 0
    /\ word = <<>>
    /\ outcome = "none"
    /\ stream = <<>>
    /\ added = {}
    /\ GenIdle
    /\ \E n1 \in 0..MaxLines : \E n2 \in 0..(MaxLines - n1) : \E n3 \in 0..(MaxLines - n1 - n2) :
          \E c1 \in SortedFiles(n1), c2 \in SortedFiles(n2), c3 \in SortedFiles(n3) :
              infiles = <<OpenFile(c1), OpenFile(c2), OpenFile(c3)>>

MergeNext ==
    \/ MergeWord
    \/ LoadFinish
    \/ OutputText

MergeSpec == MergeInit /\ [][MergeNext]_vars

----------------------------------------------------------------------------
(* The move generator of skraflplayer.py.  A bit pattern is the set of the *)
(* positions of its 1 bits: 1 << n is {n}, | is union, & is intersection   *)
(* and a pattern is true when it is not empty.                             *)

(* order.index(c) *)
OrderIndex(c) == (CHOOSE i \in 1..Len(order) : order[i] = c) - 1

(* Alphabet.bit_of *)
bit_of(c) == {OrderIndex(c)}

(* Alphabet.bit_pattern, of the letters cs *)
bit_pattern(cs) == UNION {bit_of(c) : c \in cs}

(* Alphabet.all_bits_set: 2 ** len(order) - 1 *)
all_bits_set == 0..(Len(order) - 1)

(* c in s, for a string s *)
InStr(c, s) == \E i \in 1..Len(s) : s[i] = c

(* s.replace(c, u'', 1): s without the first c in it *)
RemoveFirst(s, c) ==
    IF ~InStr(c, s) THEN s
    ELSE LET i == CHOOSE k \in 1..Len(s) : s[k] = c /\ \A m \in 1..(k - 1) : s[m] # c
         IN SubSeq(s, 1, i - 1) \o SubSeq(s, i + 1, Len(s))

(* The word list of the game, in ascending order *)
GenWords ==
    << <<"a">>, <<"a", "s">>, <<"a", "t">>, <<"d", "o">>, <<"d", "o", "g">>, <<"d", "o", "g", "s">>,
       <<"e", "a", "t">>, <<"e", "a", "t", "s">>, <<"o", "d">>, <<"o", "r">>,
       <<"s", "o">>, <<"t", "a">>, <<"t", "a", "s">>, <<"t", "e", "a">>, <<"t", "o">> >>

RECURSIVE AddAll(_, _, _)
AddAll(S, ws, i) == IF i > Len(ws) THEN S ELSE AddAll(add_word(S, ws[i]), ws, i + 1)

(* Manager.word_db(): the graph built from the word list *)
WordDb == finish(AddAll(NewDawg, GenWords, 1))

(* the words of the graph *)
WordSet == LangOf(WordDb, RootDict)

(* DawgDictionary.find_matches: the words as long as the pattern that have *)
(* the pattern's letter wherever the pattern has no "?"                    *)
find_matches(pattern) ==
    {w \in LangOf(dawg, RootDict) :
        /\ Len(w) = Len(pattern)
        /\ \A i \in 1..Len(pattern) : pattern[i] = "?" \/ pattern[i] = w[i]}

(* Board.SIZE *)
SIZE == 15

(* The board: a function from the covered squares <<row, col>> to the tile *)
(* and the letter there; a blank tile is "?" and its letter what it means  *)
is_covered(b, row, col) == <<row, col>> \in DOMAIN b

tile_at(b, row, col) == IF is_covered(b, row, col) THEN b[<<row, col>>].tile ELSE " "

letter_at(b, row, col) == IF is_covered(b, row, col) THEN b[<<row, col>>].letter ELSE " "

Board_is_empty(b) == DOMAIN b = {}

has_adjacent(b, row, col) ==
    \/ is_covered(b, row - 1, col)
    \/ is_covered(b, row + 1, col)
    \/ is_covered(b, row, col - 1)
    \/ is_covered(b, row, col + 1)

(* the letters of the covered squares next to (row, col) in direction      *)
(* (dr, dc), nearest first                                                 *)
RECURSIVE LettersFrom(_, _, _, _, _)
LettersFrom(b, row, col, dr, dc) ==
    IF is_covered(b, row + dr, col + dc)
    THEN <<letter_at(b, row + dr, col + dc)>> \o LettersFrom(b, row + dr, col + dc, dr, dc)
    ELSE <<>>

Reverse(s) == [i \in 1..Len(s) |-> s[Len(s) + 1 - i]]

letters_above(b, row, col) == Reverse(LettersFrom(b, row, col, -1, 0))

letters_below(b, row, col) == LettersFrom(b, row, col, 1, 0)

letters_left(b, row, col) == Reverse(LettersFrom(b, row, col, 0, -1))

letters_right(b, row, col) == LettersFrom(b, row, col, 0, 1)

(* AutoPlayer.__init__, lines 574-580 *)
rack_bit_pattern(r) ==
    IF InStr("?", r) THEN all_bits_set ELSE bit_pattern({r[i] : i \in 1..Len(r)})

(* Square.__init__; None is written "None" *)
Square == [cc |-> {}, tile |-> "None", letter |-> "None", anchor |-> FALSE]

Square_is_empty(sq) == sq.letter = " "

(* Square.is_open: can a new tile from the rack be placed here? *)
Square_is_open(sq) == Square_is_empty(sq) /\ sq.cc # {}

Square_is_open_for(sq, c) == (sq.cc \cap bit_of(c)) # {}

Square_mark_anchor(sq) == [sq EXCEPT !.anchor = TRUE]

(* A square that is marked whenever a square next to it is covered *)
Square_init_any(sq, b, row, col, crosscheck) ==
    LET s1 == [sq EXCEPT !.tile = tile_at(b, row, col),
                         !.letter = letter_at(b, row, col),
                         !.cc = crosscheck]
    IN IF has_adjacent(b, row, col) THEN Square_mark_anchor(s1) ELSE s1

(* A square that is marked when it is empty and a square next to it is     *)
(* covered, whatever its cross-checks                                      *)
Square_init_empty(sq, b, row, col, crosscheck) ==
    LET s1 == [sq EXCEPT !.tile = tile_at(b, row, col),
                         !.letter = letter_at(b, row, col),
                         !.cc = crosscheck]
    IN IF Square_is_empty(s1) /\ has_adjacent(b, row, col) THEN Square_mark_anchor(s1) ELSE s1

(* Square.init *)
Square_init(sq, b, row, col, crosscheck) ==
    LET s1 == [sq EXCEPT !.tile = tile_at(b, row, col),
                         !.letter = letter_at(b, row, col),
                         !.cc = crosscheck]
    IN IF Square_is_open(s1) /\ has_adjacent(b, row, col) THEN Square_mark_anchor(s1) ELSE s1

(* Axis.__init__ *)
NewAxis(index, horizontal, r) ==
    [index |-> index, horizontal |-> horizontal, rack |-> r,
     sq |-> [i \in 0..(SIZE - 1) |-> Square], empty_bits |-> {}]

coordinate_of(ax, index) == IF ax.horizontal THEN <<ax.index, index>> ELSE <<index, ax.index>>

coordinate_step(ax) == IF ax.horizontal THEN <<0, 1>> ELSE <<1, 0>>

Axis_letter_at(ax, index) == ax.sq[index].letter

Axis_is_open(ax, index) == Square_is_open(ax.sq[index])

Axis_is_open_for(ax, index, letter) == Square_is_open_for(ax.sq[index], letter)

Axis_is_empty(ax, index) == index \in ax.empty_bits

Axis_mark_anchor(ax, index) == [ax EXCEPT !.sq[index] = Square_mark_anchor(@)]

(* A cross-check that is not cut down to the letters that fit *)
CrossCheckAll(ax, b, all_cc, x, y) == all_cc

(* init_crosschecks, lines 200-224: the cross-check set of the square at   *)
(* (x, y)                                                                  *)
CrossCheck(ax, b, all_cc, x, y) ==
    IF is_covered(b, x, y) THEN all_cc
    ELSE LET above == IF ax.horizontal THEN letters_above(b, x, y) ELSE letters_left(b, x, y)
             below == IF ax.horizontal THEN letters_below(b, x, y) ELSE letters_right(b, x, y)
             query == above \o <<"?">> \o below
             matches == find_matches(query)
             cix == Len(above)
             bits == bit_pattern({wrd[cix + 1] : wrd \in matches})
         IN IF Len(query) > 1 THEN all_cc \cap bits ELSE all_cc

(* init_crosschecks, lines 226-229: the axis with its squares initialised  *)
(* and the empty ones noted in _empty_bits                                 *)
WithSquares(ax, sqs) ==
    [ax EXCEPT !.sq = sqs,
               !.empty_bits = @ \cup {ix \in 0..(SIZE - 1) : Square_is_empty(sqs[ix])}]

(* Axis.init_crosschecks: the squares are visited from coordinate_of(0) on *)
(* in steps of coordinate_step                                             *)
init_crosschecks(ax, b, all_cc) ==
    LET x0 == coordinate_of(ax, 0)[1]
        y0 == coordinate_of(ax, 0)[2]
        xd == coordinate_step(ax)[1]
        yd == coordinate_step(ax)[2]
    IN WithSquares(ax, [ix \in 0..(SIZE - 1) |->
                          Square_init(ax.sq[ix], b, x0 + ix * xd, y0 + ix * yd,
                                      CrossCheck(ax, b, all_cc, x0 + ix * xd, y0 + ix * yd))])

(* LeftPermutationNavigator.  A navigator is a record of its fields; a     *)
(* callback gives the navigator after the call as nav and, when it returns *)
(* a value, the value as ok.  _leftparts is a function from the lengths    *)
(* 1.._maxleft to lists; the empty list stands for None as well.  err is   *)
(* the exception a callback raised, "ok" when none did, and calls is the   *)
(* history of the calls the navigator got.                                 *)
LeftPermutationNavigator(r) ==
    [kind |-> "LP", rack |-> r, stack |-> <<>>, maxleft |-> Len(r) - 1,
     leftparts |-> [n \in 1..(Len(r) - 1) |-> <<>>], index |-> 0,
     err |-> "ok", calls |-> <<>>]

leftparts(nav, length) ==
    IF length > 0 /\ length <= nav.maxleft THEN nav.leftparts[length] ELSE <<>>

LP_push_edge(nav, firstchar) ==
    IF ~(InStr(firstchar, nav.rack) \/ InStr("?", nav.rack))
    THEN [nav |-> nav, ok |-> FALSE]
    ELSE [nav |-> [nav EXCEPT !.stack = Append(@, <<nav.rack, nav.index>>)], ok |-> TRUE]

(* A navigator that goes on past the edge of the board *)
ER_accepting_off_board(ax, nav) == nav.rack # <<>> \/ ~Axis_is_empty(ax, nav.index)

(* A navigator that wants no more than one letter *)
LP_accepting_one(nav) == nav.index < 1

LP_accepting(nav) == nav.index < nav.maxleft

(* An accepts that takes a blank tile before the tile of the letter *)
LP_accepts_blank_first(nav, newchar) ==
    LET exactmatch == InStr(newchar, nav.rack)
    IN IF ~exactmatch /\ ~InStr("?", nav.rack)
       THEN [nav |-> nav, ok |-> FALSE]
       ELSE [nav |-> [nav EXCEPT !.index = @ + 1,
                                 !.rack = IF InStr("?", @) THEN RemoveFirst(@, "?")
                                          ELSE RemoveFirst(@, newchar)],
             ok |-> TRUE]

LP_accepts(nav, newchar) ==
    LET exactmatch == InStr(newchar, nav.rack)
    IN IF ~exactmatch /\ ~InStr("?", nav.rack)
       THEN [nav |-> nav, ok |-> FALSE]
       ELSE [nav |-> [nav EXCEPT !.index = @ + 1,
                                 !.rack = IF exactmatch THEN RemoveFirst(@, newchar)
                                          ELSE RemoveFirst(@, "?")],
             ok |-> TRUE]

(* the place in a list of n items that Python's index i stands for, a      *)
(* negative index counting from the end; -1 when there is none and          *)
(* IndexError is raised                                                    *)
ListIndex(i, n) == IF i >= n \/ i < -n THEN -1 ELSE IF i < 0 THEN n + i ELSE i

(* accept_resumable with lm the place len(matched) - 1 stands for in       *)
(* _leftparts                                                              *)
StoreLeftPart(nav, lm, prefix, nextnode, matched) ==
    IF lm < 0 THEN [nav EXCEPT !.err = "IndexError"]
    ELSE [nav EXCEPT !.leftparts[lm + 1] =
                         Append(@, [matched |-> matched, rack |-> nav.rack,
                                    prefix |-> prefix, nextnode |-> nextnode])]

LP_accept_resumable(nav, prefix, nextnode, matched) ==
    StoreLeftPart(nav, ListIndex(Len(matched) - 1, nav.maxleft), prefix, nextnode, matched)

(* list.pop() of an empty list raises IndexError *)
LP_pop_edge(nav) ==
    IF nav.stack = <<>> THEN [nav |-> [nav EXCEPT !.err = "IndexError"], ok |-> FALSE]
    ELSE [nav |-> [nav EXCEPT !.rack = nav.stack[Len(nav.stack)][1],
                              !.index = nav.stack[Len(nav.stack)][2],
                              !.stack = SubSeq(@, 1, Len(@) - 1)],
          ok |-> TRUE]

(* LeftFindNavigator; _state is <<>> for None, else a list of one entry *)
LeftFindNavigator(prefix) ==
    [kind |-> "LF", prefix |-> prefix, lenp |-> Len(prefix), pix |-> 0, state |-> <<>>,
     err |-> "ok", calls |-> <<>>]

(* self._prefix[self._pix] raises IndexError at the end of the prefix *)
LF_push_edge(nav, firstchar) ==
    IF nav.pix >= nav.lenp THEN [nav |-> [nav EXCEPT !.err = "IndexError"], ok |-> FALSE]
    ELSE [nav |-> nav, ok |-> firstchar = nav.prefix[nav.pix + 1]]

LF_accepting(nav) == nav.pix < nav.lenp

LF_accepts(nav, newchar) ==
    IF nav.pix >= nav.lenp THEN [nav |-> [nav EXCEPT !.err = "IndexError"], ok |-> FALSE]
    ELSE IF nav.prefix[nav.pix + 1] # newchar
    THEN [nav |-> [nav EXCEPT !.err = "AssertionError"], ok |-> FALSE]
    ELSE [nav |-> [nav EXCEPT !.pix = @ + 1], ok |-> TRUE]

LF_accept_resumable(nav, prefix, nextnode, matched) ==
    IF nav.pix = nav.lenp
    THEN [nav EXCEPT !.state = <<[matched |-> matched, prefix |-> prefix, nextnode |-> nextnode]>>]
    ELSE nav

LF_pop_edge(nav) == [nav |-> nav, ok |-> FALSE]

(* ExtendRightNavigator; _last_check is "None" or one of the codes of      *)
(* class Match, written "NO", "BOARD_TILE" and "RACK_TILE".  cands is the  *)
(* AutoPlayer's list of candidates, to which accept() adds.                *)
ExtendRightNavigator(anchor, r, cands) ==
    [kind |-> "ER", rack |-> r, anchor |-> anchor, index |-> anchor, stack |-> <<>>,
     last_check |-> "None", cands |-> cands, err |-> "ok", calls |-> <<>>]

(* A check that does not ask for the cross-checks of the square *)
ER_check_no_cc(ax, nav, ch) ==
    IF ~Axis_is_empty(ax, nav.index)
    THEN IF ch = Axis_letter_at(ax, nav.index) THEN "BOARD_TILE" ELSE "NO"
    ELSE IF InStr("?", nav.rack) THEN "RACK_TILE"
    ELSE IF InStr(ch, nav.rack) THEN "RACK_TILE" ELSE "NO"

(* ExtendRightNavigator._check.  At an index off the board is_empty is    *)
(* False, no bit being set there, and letter_at raises IndexError.         *)
ER_check(ax, nav, ch) ==
    IF nav.index >= SIZE THEN "IndexError"
    ELSE IF ~Axis_is_empty(ax, nav.index)
    THEN IF ch = Axis_letter_at(ax, nav.index) THEN "BOARD_TILE" ELSE "NO"
    ELSE IF ~Axis_is_open_for(ax, nav.index, ch) THEN "NO"
    ELSE IF InStr("?", nav.rack) THEN "RACK_TILE"
    ELSE IF InStr(ch, nav.rack) THEN "RACK_TILE" ELSE "NO"

ER_push_edge(ax, nav, firstchar) ==
    LET lc == ER_check(ax, nav, firstchar)
    IN IF lc = "IndexError" THEN [nav |-> [nav EXCEPT !.err = lc], ok |-> FALSE]
       ELSE IF lc = "NO"
       THEN [nav |-> [nav EXCEPT !.last_check = lc], ok |-> FALSE]
       ELSE [nav |-> [nav EXCEPT !.last_check = lc,
                                 !.stack = Append(@, <<nav.rack, nav.index>>)],
             ok |-> TRUE]

ER_accepting(ax, nav) ==
    IF nav.index >= SIZE THEN FALSE
    ELSE nav.rack # <<>> \/ ~Axis_is_empty(ax, nav.index)

(* An accepts that takes a blank tile before the tile of the letter *)
ER_accepts_blank_first(ax, nav, newchar) ==
    LET match == IF nav.last_check = "None" THEN ER_check(ax, nav, newchar) ELSE nav.last_check
        nav1 == [nav EXCEPT !.last_check = "None"]
    IN IF match = "NO" THEN [nav |-> nav1, ok |-> FALSE]
       ELSE [nav |-> [nav1 EXCEPT
                        !.index = @ + 1,
                        !.rack = IF match # "RACK_TILE" THEN @
                                 ELSE IF InStr("?", @) THEN RemoveFirst(@, "?")
                                 ELSE RemoveFirst(@, newchar)],
             ok |-> TRUE]

(* An accepts that keeps the check of push_edge after it has used it *)
ER_accepts_keep_check(ax, nav, newchar) ==
    LET match == IF nav.last_check = "None" THEN ER_check(ax, nav, newchar) ELSE nav.last_check
    IN IF match = "IndexError" THEN [nav |-> [nav EXCEPT !.err = match], ok |-> FALSE]
       ELSE IF match = "NO" THEN [nav |-> nav, ok |-> FALSE]
       ELSE [nav |-> [nav EXCEPT
                        !.index = @ + 1,
                        !.rack = IF match # "RACK_TILE" THEN @
                                 ELSE IF InStr(newchar, @) THEN RemoveFirst(@, newchar)
                                 ELSE RemoveFirst(@, "?")],
             ok |-> TRUE]

(* ExtendRightNavigator.accepts *)
ER_accepts(ax, nav, newchar) ==
    LET match == IF nav.last_check = "None" THEN ER_check(ax, nav, newchar) ELSE nav.last_check
        nav1 == [nav EXCEPT !.last_check = "None"]
    IN IF match = "IndexError" THEN [nav |-> [nav EXCEPT !.err = match], ok |-> FALSE]
       ELSE IF match = "NO" THEN [nav |-> nav1, ok |-> FALSE]
       ELSE [nav |-> [nav1 EXCEPT
                        !.index = @ + 1,
                        !.rack = IF match # "RACK_TILE" THEN @
                                 ELSE IF InStr(newchar, @) THEN RemoveFirst(@, newchar)
                                 ELSE RemoveFirst(@, "?"),
                        !.err = IF match = "RACK_TILE" /\ ~InStr(newchar, nav.rack)
                                   /\ ~InStr("?", nav.rack)
                                THEN "AssertionError" ELSE @],
             ok |-> TRUE]

(* A lay-out that takes a blank tile for the letter it stands for *)
RECURSIVE LayTilesAsLetters(_, _, _, _, _)
LayTilesAsLetters(ax, matched, k, ix, m) ==
    IF k > Len(matched) THEN m
    ELSE LET c == matched[k]
             row == m.row + (k - 1) * coordinate_step(ax)[1]
             col == m.col + (k - 1) * coordinate_step(ax)[2]
             exact == InStr(c, m.rack)
         IN IF Axis_is_empty(ax, ix)
            THEN LayTilesAsLetters(ax, matched, k + 1, ix + 1,
                     [m EXCEPT !.rack = IF exact THEN RemoveFirst(@, c) ELSE RemoveFirst(@, "?"),
                               !.tiles = @ \o <<c>>,
                               !.covers = Append(@, [row |-> row, col |-> col,
                                                     tile |-> c, letter |-> c])])
            ELSE LayTilesAsLetters(ax, matched, k + 1, ix + 1, [m EXCEPT !.tiles = @ \o <<c>>])

(* A lay-out that takes a blank tile as long as the rack has one *)
RECURSIVE LayTilesBlankFirst(_, _, _, _, _)
LayTilesBlankFirst(ax, matched, k, ix, m) ==
    IF k > Len(matched) THEN m
    ELSE LET c == matched[k]
             row == m.row + (k - 1) * coordinate_step(ax)[1]
             col == m.col + (k - 1) * coordinate_step(ax)[2]
             blank == InStr("?", m.rack)
             tile == IF blank THEN "?" ELSE c
         IN IF Axis_is_empty(ax, ix)
            THEN LayTilesBlankFirst(ax, matched, k + 1, ix + 1,
                     [m EXCEPT !.rack = RemoveFirst(@, tile),
                               !.tiles = IF blank THEN @ \o <<"?", c>> ELSE @ \o <<c>>,
                               !.covers = Append(@, [row |-> row, col |-> col,
                                                     tile |-> tile, letter |-> c])])
            ELSE LayTilesBlankFirst(ax, matched, k + 1, ix + 1, [m EXCEPT !.tiles = @ \o <<c>>])

(* accept, lines 515-536: the letters of the word from the k-th on are     *)
(* laid on the squares from ix on; m holds the move, the rack that is left *)
(* and the tiles so far                                                    *)
RECURSIVE LayTiles(_, _, _, _, _)
LayTiles(ax, matched, k, ix, m) ==
    IF k > Len(matched) THEN m
    ELSE LET c == matched[k]
             row == m.row + (k - 1) * coordinate_step(ax)[1]
             col == m.col + (k - 1) * coordinate_step(ax)[2]
             exact == InStr(c, m.rack)
             tile == IF exact THEN c ELSE "?"
         IN IF Axis_is_empty(ax, ix)
            THEN LayTiles(ax, matched, k + 1, ix + 1,
                     [m EXCEPT !.rack = IF exact THEN RemoveFirst(@, c) ELSE RemoveFirst(@, "?"),
                               !.tiles = IF exact THEN @ \o <<c>> ELSE @ \o <<"?", c>>,
                               !.covers = Append(@, [row |-> row, col |-> col,
                                                     tile |-> tile, letter |-> c]),
                               !.err = IF row \in 0..(SIZE - 1) /\ col \in 0..(SIZE - 1)
                                       THEN @ ELSE "AssertionError"])
            ELSE LayTiles(ax, matched, k + 1, ix + 1, [m EXCEPT !.tiles = @ \o <<c>>])

(* An accept that takes a word that runs into the next tile on the board *)
ER_accept_no_end(ax, nav, matched, final) ==
    IF nav.err = "ok" /\ final /\ Len(matched) > 1
    THEN LET ix == nav.index - Len(matched)
             m == LayTiles(ax, matched, 1, ix,
                           [word |-> matched, row |-> coordinate_of(ax, ix)[1],
                            col |-> coordinate_of(ax, ix)[2], horizontal |-> ax.horizontal,
                            covers |-> <<>>, tiles |-> <<>>, rack |-> ax.rack, err |-> "ok"])
         IN IF m.err # "ok" \/ Len(m.rack) # Len(nav.rack)
            THEN [nav EXCEPT !.err = "AssertionError"]
            ELSE [nav EXCEPT !.cands = Append(@, [word |-> m.word, row |-> m.row, col |-> m.col,
                                                   horizontal |-> m.horizontal,
                                                   covers |-> m.covers, tiles |-> m.tiles])]
    ELSE nav

(* ExtendRightNavigator.accept.  The rack "as it was at the beginning of   *)
(* move generation" is the AutoPlayer's, which the axis holds as well.  A  *)
(* failed assert raises before the move is added, and nothing is added     *)
(* once an error was raised.                                               *)
ER_accept(ax, nav, matched, final) ==
    IF nav.err = "ok" /\ final /\ Len(matched) > 1
       /\ (nav.index >= SIZE \/ Axis_is_empty(ax, nav.index))
    THEN LET ix == nav.index - Len(matched)
             m == LayTiles(ax, matched, 1, ix,
                           [word |-> matched, row |-> coordinate_of(ax, ix)[1],
                            col |-> coordinate_of(ax, ix)[2], horizontal |-> ax.horizontal,
                            covers |-> <<>>, tiles |-> <<>>, rack |-> ax.rack, err |-> "ok"])
         IN IF m.err # "ok" \/ Len(m.rack) # Len(nav.rack)
            THEN [nav EXCEPT !.err = "AssertionError"]
            ELSE [nav EXCEPT !.cands = Append(@, [word |-> m.word, row |-> m.row, col |-> m.col,
                                                   horizontal |-> m.horizontal,
                                                   covers |-> m.covers, tiles |-> m.tiles])]
    ELSE nav

(* A pop_edge that takes the rack back and stays at the square it is at *)
ER_pop_edge_rack_only(nav) ==
    IF nav.stack = <<>> THEN [nav |-> [nav EXCEPT !.err = "IndexError"], ok |-> FALSE]
    ELSE [nav |-> [nav EXCEPT !.rack = nav.stack[Len(nav.stack)][1],
                              !.stack = SubSeq(@, 1, Len(@) - 1)],
          ok |-> TRUE]

ER_pop_edge(nav) ==
    IF nav.stack = <<>> THEN [nav |-> [nav EXCEPT !.err = "IndexError"], ok |-> FALSE]
    ELSE [nav |-> [nav EXCEPT !.rack = nav.stack[Len(nav.stack)][1],
                              !.index = nav.stack[Len(nav.stack)][2],
                              !.stack = SubSeq(@, 1, Len(@) - 1)],
          ok |-> TRUE]

(* the tiles the navigator holds and the place it is at *)
Residual(nav) == IF nav.kind = "LF" THEN <<>> ELSE nav.rack

Position(nav) == IF nav.kind = "LF" THEN nav.pix ELSE nav.index

(* the check that an ExtendRightNavigator has kept from push_edge *)
Cached(nav) == IF nav.kind = "ER" THEN nav.last_check ELSE "None"

(* The call op of navigator nav with the letter ch, or with the letters    *)
(* matched and the flag final, as an entry of the history: what the        *)
(* navigator held before the call, what the call gave (ok), and what the   *)
(* navigator nav2 holds after it                                           *)
Call(op, ch, matched, final, nav, ok, nav2) ==
    [op |-> op, ch |-> ch, matched |-> matched, final |-> final,
     rack |-> Residual(nav), index |-> Position(nav), ok |-> ok,
     rack2 |-> Residual(nav2), index2 |-> Position(nav2), cache |-> Cached(nav)]

(* the call is noted in the history of the navigator that r holds *)
Noted(op, ch, nav, r) ==
    [r EXCEPT !.nav.calls = Append(@, Call(op, ch, <<>>, FALSE, nav, r.ok, r.nav))]

(* The navigation protocol: the graph calls the navigator at hand *)
push_edge(ax, nav, firstchar) ==
    Noted("push_edge", firstchar, nav,
          CASE nav.kind = "LP" -> LP_push_edge(nav, firstchar)
            [] nav.kind = "LF" -> LF_push_edge(nav, firstchar)
            [] nav.kind = "ER" -> ER_push_edge(ax, nav, firstchar))

accepting(ax, nav) ==
    CASE nav.kind = "LP" -> LP_accepting(nav)
      [] nav.kind = "LF" -> LF_accepting(nav)
      [] nav.kind = "ER" -> ER_accepting(ax, nav)

accepts(ax, nav, newchar) ==
    Noted("accepts", newchar, nav,
          CASE nav.kind = "LP" -> LP_accepts(nav, newchar)
            [] nav.kind = "LF" -> LF_accepts(nav, newchar)
            [] nav.kind = "ER" -> ER_accepts(ax, nav, newchar))

(* the results the navigator has noted *)
Results(nav) ==
    CASE nav.kind = "LP" -> nav.leftparts
      [] nav.kind = "LF" -> nav.state
      [] nav.kind = "ER" -> nav.cands

(* nav2 is the navigator after the call; ok says that the call noted a     *)
(* result                                                                  *)
NotedAccept(nav, matched, final, nav2) ==
    [nav2 EXCEPT !.calls = Append(@, Call("accept", "", matched, final, nav,
                                          Results(nav2) # Results(nav), nav2))]

(* accept_resumable for a navigator that has it, accept otherwise *)
accept(ax, nav, prefix, nextnode, matched, final) ==
    NotedAccept(nav, matched, final,
                CASE nav.kind = "LP" -> LP_accept_resumable(nav, prefix, nextnode, matched)
                  [] nav.kind = "LF" -> LF_accept_resumable(nav, prefix, nextnode, matched)
                  [] nav.kind = "ER" -> ER_accept(ax, nav, matched, final))

pop_edge(nav) ==
    Noted("pop_edge", "", nav,
          CASE nav.kind = "LP" -> LP_pop_edge(nav)
            [] nav.kind = "LF" -> LF_pop_edge(nav)
            [] nav.kind = "ER" -> ER_pop_edge(nav))

(* Navigation over the graph.  NavigateNode visits the edges of dict d     *)
(* from the i-th on: an edge the navigator lets in is followed, and the    *)
(* visit goes on with the next edge when pop_edge says so.  NavigateEdge   *)
(* follows an edge label from position j on while the navigator is         *)
(* accepting: a letter the navigator accepts is added to matched, a "|"    *)
(* after it is skipped, and the navigator is told of the match, final when *)
(* a "|" follows the letter or the label ends at the sink or at a final    *)
(* node.  At the end of the label the visit goes on below the next node.   *)
RECURSIVE NavigateNode(_, _, _, _, _), EnterEdge(_, _, _, _, _), LeaveEdge(_, _, _, _, _)
RECURSIVE NavigateEdge(_, _, _, _, _, _), AcceptLetter(_, _, _, _, _, _)
NavigateNode(ax, nav, d, i, matched) ==
    IF i > Len(dawg.heap[d]) THEN nav
    ELSE EnterEdge(ax, push_edge(ax, nav, dawg.heap[d][i].k[1]), d, i, matched)

(* p is what push_edge gave for the i-th edge of dict d *)
EnterEdge(ax, p, d, i, matched) ==
    IF ~p.ok THEN NavigateNode(ax, p.nav, d, i + 1, matched)
    ELSE LeaveEdge(ax, pop_edge(NavigateEdge(ax, p.nav, dawg.heap[d][i].k, 0,
                                             dawg.heap[d][i].v, matched)),
                   d, i, matched)

(* A visit that goes on with the next edge whatever pop_edge says *)
LeaveEdgeOn(ax, q, d, i, matched) == NavigateNode(ax, q.nav, d, i + 1, matched)

(* q is what pop_edge gave after the i-th edge of dict d *)
LeaveEdge(ax, q, d, i, matched) ==
    IF q.ok THEN NavigateNode(ax, q.nav, d, i + 1, matched) ELSE q.nav

NavigateEdge(ax, nav, prefix, j, nextnode, matched) ==
    IF j < Len(prefix) /\ accepting(ax, nav)
    THEN AcceptLetter(ax, accepts(ax, nav, prefix[j + 1]), prefix, j, nextnode, matched)
    ELSE IF j < Len(prefix) THEN nav
    ELSE IF nextnode # None /\ accepting(ax, nav)
         THEN NavigateNode(ax, nav, dawg.nodes[nextnode].edges, 1, matched)
         ELSE nav

(* a is what accepts gave for the letter after position j of the label *)
AcceptLetter(ax, a, prefix, j, nextnode, matched) ==
    LET m1 == matched \o <<prefix[j + 1]>>
        bar == j + 1 < Len(prefix) /\ prefix[j + 2] = "|"
        final == IF j + 1 < Len(prefix) THEN bar
                 ELSE nextnode = None \/ dawg.nodes[nextnode].final
        j2 == IF bar THEN j + 2 ELSE j + 1
    IN IF ~a.ok THEN a.nav
       ELSE NavigateEdge(ax, accept(ax, a.nav, SubSeq(prefix, j2 + 1, Len(prefix)),
                                    nextnode, m1, final),
                         prefix, j2, nextnode, m1)

(* the navigator as it is given to navigate or to resume: the history      *)
(* starts with that call                                                   *)
Started(op, nav, matched) ==
    [nav EXCEPT !.calls = <<Call(op, "", matched, FALSE, nav, TRUE, nav)>>]

(* done() is called at the end of the traversal *)
done(nav) == [nav EXCEPT !.calls = Append(@, Call("done", "", <<>>, FALSE, nav, TRUE, nav))]

(* the traversal from the root's edges, for a navigator that is accepting *)
NavigateRoot(ax, nav) ==
    IF accepting(ax, nav) THEN NavigateNode(ax, nav, RootDict, 1, <<>>) ELSE nav

(* DawgDictionary.navigate(nav): a full traversal from the root's edges *)
navigate(ax, nav) == done(NavigateRoot(ax, Started("navigate", nav, <<>>)))

(* Navigation(nav).resume(prefix, nextnode, matched) *)
resume(ax, nav, prefix, nextnode, matched) ==
    done(NavigateEdge(ax, Started("resume", nav, matched), prefix, 0, nextnode, matched))

(* A left part of the one letter next to square ix *)
LeftPartOneLetter(ax, ix) ==
    IF ix > 0 /\ ~Axis_is_empty(ax, ix - 1) THEN <<ax.sq[ix - 1].letter>> ELSE <<>>

(* _gen_moves_from_anchor, lines 238-242: the letters on the board left of *)
(* square ix                                                               *)
RECURSIVE LeftPartOnBoard(_, _)
LeftPartOnBoard(ax, ix) ==
    IF ix > 0 /\ ~Axis_is_empty(ax, ix - 1)
    THEN LeftPartOnBoard(ax, ix - 1) \o <<ax.sq[ix - 1].letter>>
    ELSE <<>>

(* the candidates and the error, if any, after the navigation nav that     *)
(* went on from acc; failed says that an assert about it failed            *)
Found(acc, failed, nav) ==
    [cands |-> nav.cands,
     err |-> IF acc.err # "ok" THEN acc.err
             ELSE IF failed THEN "AssertionError"
             ELSE nav.err,
     runs |-> Append(acc.runs, nav)]

(* the navigation nav is noted among those that were run *)
Ran(acc, nav) == [acc EXCEPT !.runs = Append(@, nav)]

(* lines 267-269: a navigation to the right is resumed after each of the   *)
(* left parts of lplist from the k-th on.  acc holds the candidates found  *)
(* and the error raised, if any; an error ends the search.                 *)
RECURSIVE ResumeAll(_, _, _, _, _)
ResumeAll(ax, index, lplist, k, acc) ==
    IF k > Len(lplist) \/ acc.err # "ok" THEN acc
    ELSE ResumeAll(ax, index, lplist, k + 1,
                   Found(acc, FALSE,
                         resume(ax, ExtendRightNavigator(index, lplist[k].rack, acc.cands),
                                lplist[k].prefix, lplist[k].nextnode, lplist[k].matched)))

(* lines 264-269: the left parts of length leftlen..maxleft *)
RECURSIVE LeftLengths(_, _, _, _, _, _)
LeftLengths(ax, index, lp, leftlen, maxleft, acc) ==
    IF leftlen > maxleft \/ acc.err # "ok" THEN acc
    ELSE LeftLengths(ax, index, lp, leftlen + 1, maxleft,
                     ResumeAll(ax, index, leftparts(lp, leftlen), 1, acc))

(* _gen_moves_from_anchor, lines 243-252: lf is the LeftFindNavigator      *)
(* after its navigation for the left part on the board                     *)
CompleteLeftPart(ax, index, leftpart, lf, acc) ==
    IF lf.err # "ok" THEN [acc EXCEPT !.err = lf.err]
    ELSE IF lf.state # <<>>
    THEN Found(acc, lf.state[1].matched # leftpart,
               resume(ax, ExtendRightNavigator(index, ax.rack, acc.cands),
                      lf.state[1].prefix, lf.state[1].nextnode, leftpart))
    ELSE acc

(* lines 244-245: the LeftFindNavigator lf has gone over the graph *)
FoundLeftPart(ax, index, leftpart, lf, acc) ==
    CompleteLeftPart(ax, index, leftpart, lf, Ran(acc, lf))

FindLeftPart(ax, index, leftpart, acc) ==
    FoundLeftPart(ax, index, leftpart, navigate(ax, LeftFindNavigator(leftpart)), acc)

(* lines 261-269: acc1 is what the navigation from the anchor found *)
PermuteLeft(ax, index, maxleft, lp, acc1) ==
    IF maxleft > 0 /\ lp.kind # "None"
    THEN LeftLengths(ax, index, lp, 1, maxleft, acc1)
    ELSE acc1

(* Axis._gen_moves_from_anchor *)
gen_moves_from_anchor(ax, index, maxleft, lp, acc) ==
    IF maxleft = 0 /\ index > 0 /\ ~Axis_is_empty(ax, index - 1)
    THEN FindLeftPart(ax, index, LeftPartOnBoard(ax, index), acc)
    ELSE PermuteLeft(ax, index, maxleft, lp,
                     Found(acc, FALSE,
                           navigate(ax, ExtendRightNavigator(index, ax.rack, acc.cands))))

(* A count of open squares that does not stop at the last anchor *)
RECURSIVE OpenSquaresPastAnchor(_, _, _)
OpenSquaresPastAnchor(ax, left, last_anchor) ==
    IF left > 0 /\ Square_is_open(ax.sq[left - 1])
    THEN 1 + OpenSquaresPastAnchor(ax, left - 1, last_anchor)
    ELSE 0

(* A count of the empty squares, open or not *)
RECURSIVE OpenSquaresEmpty(_, _, _)
OpenSquaresEmpty(ax, left, last_anchor) ==
    IF left > 0 /\ left > (last_anchor + 1) /\ Square_is_empty(ax.sq[left - 1])
    THEN 1 + OpenSquaresEmpty(ax, left - 1, last_anchor)
    ELSE 0

(* generate_moves, lines 279-283: the open squares in a row left of square *)
(* left, as far as the last anchor                                         *)
RECURSIVE OpenSquares(_, _, _)
OpenSquares(ax, left, last_anchor) ==
    IF left > 0 /\ left > (last_anchor + 1) /\ Square_is_open(ax.sq[left - 1])
    THEN 1 + OpenSquares(ax, left - 1, last_anchor)
    ELSE 0

Min(a, b) == IF a < b THEN a ELSE b

(* Axis.generate_moves, from square i on *)
RECURSIVE GenerateFrom(_, _, _, _, _)
GenerateFrom(ax, lp, i, last_anchor, acc) ==
    IF i >= SIZE \/ acc.err # "ok" THEN acc
    ELSE IF ax.sq[i].anchor
    THEN GenerateFrom(ax, lp, i + 1, i,
             gen_moves_from_anchor(ax, i,
                 Min(OpenSquares(ax, i, last_anchor), Len(ax.rack) - 1), lp, acc))
    ELSE GenerateFrom(ax, lp, i + 1, last_anchor, acc)

(* runs is the history of the navigations run for the axis, each as the    *)
(* navigator it left                                                       *)
generate_moves(ax, lp, cands) ==
    GenerateFrom(ax, lp, 0, -1, [cands |-> cands, err |-> "ok", runs |-> <<>>])

----------------------------------------------------------------------------
(* The state machine of AutoPlayer._generate_move *)

(* the word w laid on the board from (row, col) on, across or down *)
Lay(b, w, row, col, horizontal) ==
    [rc \in DOMAIN b \cup {IF horizontal THEN <<row, col + k - 1>> ELSE <<row + k - 1, col>>
                             : k \in 1..Len(w)} |->
        IF rc \in DOMAIN b THEN b[rc]
        ELSE LET c == w[IF horizontal THEN rc[2] - col + 1 ELSE rc[1] - row + 1]
             IN [tile |-> c, letter |-> c]]

EmptyBoard == [rc \in {} |-> [tile |-> " ", letter |-> " "]]

(* the words ws laid one after the other, each as <<word, row, col, across>> *)
RECURSIVE LayAll(_, _, _)
LayAll(b, ws, i) ==
    IF i > Len(ws) THEN b
    ELSE LayAll(Lay(b, ws[i][1], ws[i][2], ws[i][3], ws[i][4]), ws, i + 1)

(* a game that has come next to the first column and next to the last row *)
BoardToEdges ==
    LayAll(EmptyBoard,
           << <<<<"d", "o", "g", "s">>, 7, 4, TRUE>>, <<<<"o", "d">>, 6, 4, FALSE>>,
              <<<<"t", "o">>, 6, 3, TRUE>>, <<<<"a", "t">>, 5, 3, FALSE>>,
              <<<<"t", "e", "a">>, 5, 1, TRUE>>, <<<<"a", "t">>, 4, 1, FALSE>>,
              <<<<"s", "o">>, 7, 7, FALSE>>, <<<<"o", "d">>, 8, 7, TRUE>>,
              <<<<"d", "o", "g", "s">>, 8, 8, FALSE>>, <<<<"s", "o">>, 11, 8, TRUE>>,
              <<<<"o", "d">>, 11, 9, FALSE>>, <<<<"d", "o">>, 12, 9, TRUE>>,
              <<<<"o", "d">>, 12, 10, FALSE>>, <<<<"d", "o">>, 13, 10, TRUE>> >>, 1)

(* The boards a move is generated for: the empty board, boards after one   *)
(* and two moves, a board with a blank tile, a board with tiles next to    *)
(* its edges, a board with a row that has a tile and, two squares away, an *)
(* empty square above the end of a word, a board with a single "t" above   *)
(* the last square of a column, and a board with a row in which open       *)
(* squares lie between two anchors and between a closed square and an      *)
(* anchor                                                                  *)
Boards ==
    LET do == Lay(EmptyBoard, <<"d", "o">>, 7, 7, TRUE)
        eat == Lay(EmptyBoard, <<"e", "a", "t">>, 6, 7, FALSE)
        blank == [Lay(EmptyBoard, <<"a", "t">>, 7, 6, TRUE) EXCEPT ![<<7, 6>>].tile = "?"]
        dogs == Lay(Lay(EmptyBoard, <<"d", "o", "g", "s">>, 7, 4, TRUE), <<"s", "o">>, 7, 7, FALSE)
        tea == Lay(Lay(EmptyBoard, <<"t", "e", "a">>, 6, 7, FALSE), <<"e", "a", "t">>, 7, 7, TRUE)
        last == LayAll(EmptyBoard,
                       << <<<<"d", "o", "g", "s">>, 7, 7, FALSE>>,
                          <<<<"e", "a", "t", "s">>, 10, 4, TRUE>>,
                          <<<<"e", "a", "t", "s">>, 10, 4, FALSE>>,
                          <<<<"t", "a", "s">>, 13, 2, TRUE>> >>, 1)
        gaps == LayAll(EmptyBoard,
                       << <<<<"t", "e", "a">>, 7, 5, TRUE>>,
                          <<<<"e", "a", "t">>, 6, 7, FALSE>>,
                          <<<<"t", "a">>, 7, 5, FALSE>>,
                          <<<<"e", "a", "t">>, 6, 7, TRUE>>,
                          <<<<"t", "e", "a">>, 6, 9, FALSE>>,
                          <<<<"e", "a", "t">>, 7, 9, TRUE>>,
                          <<<<"t", "a">>, 7, 11, FALSE>> >>, 1)
    IN {EmptyBoard, do, eat, blank, dogs, tea, last, gaps, BoardToEdges}

(* the tiles of the racks *)
RackTiles == <<"a", "o", "s", "t", "?">>

MaxRack == 3

(* The racks: the strings of 0 to MaxRack tiles, in the order of RackTiles *)
Racks ==
    UNION {{[i \in 1..n |-> RackTiles[f[i]]] :
              f \in {g \in [1..n -> 1..Len(RackTiles)] : \A i \in 1..(n - 1) : g[i] <= g[i + 1]}}
           : n \in 0..MaxRack}

GenInit ==
    /\ dawg = WordDb
    /\ lastword = <<>>
    /\ source = "game"
    /\ pc = "game"
    /\ filter = "nofilter"
    /\ nread = 0
    /\ word = <<>>
    /\ outcome = "none"
    /\ stream = <<>>
    /\ added = {}
    /\ infiles = <<>>
    /\ board \in Boards
    /\ rack \in Racks
    /\ lpn = [kind |-> "None"]
    /\ axno = 0
    /\ axis = <<>>
    /\ candidates = <<>>
    /\ gpc = "start"
    /\ order = IcelandicOrder

(* _generate_move, lines 619-623: the left parts the rack can make *)
LeftParts ==
    /\ gpc = "start"
    /\ lpn' = IF Len(rack) > 1 THEN navigate(<<>>, LeftPermutationNavigator(rack))
              ELSE [kind |-> "None"]
    /\ gpc' = IF Len(rack) > 1 /\ lpn'.err # "ok" THEN "aborted"
              ELSE IF Board_is_empty(board) THEN "first" ELSE "axis"
    /\ UNCHANGED <<board, rack, axno, axis, candidates, order>>
    /\ UNCHANGED buildervars

(* lines 633-634: the first move, on the central column only *)
InitCenterAxis ==
    /\ gpc = "first"
    /\ axno' = SIZE + SIZE \div 2
    /\ axis' = init_crosschecks(NewAxis(SIZE \div 2, FALSE, rack), board, rack_bit_pattern(rack))
    /\ gpc' = "mark"
    /\ UNCHANGED <<board, rack, lpn, candidates, order>>
    /\ UNCHANGED buildervars

(* line 636: the center square is the anchor *)
MarkCenter ==
    /\ gpc = "mark"
    /\ axis' = Axis_mark_anchor(axis, SIZE \div 2)
    /\ gpc' = "generate"
    /\ UNCHANGED <<board, rack, lpn, axno, candidates, order>>
    /\ UNCHANGED buildervars

(* lines 641-648: the next row or column *)
InitAxis ==
    /\ gpc = "axis"
    /\ axis' = init_crosschecks(IF axno < SIZE THEN NewAxis(axno, TRUE, rack)
                                ELSE NewAxis(axno - SIZE, FALSE, rack),
                                board, rack_bit_pattern(rack))
    /\ gpc' = "generate"
    /\ UNCHANGED <<board, rack, lpn, axno, candidates, order>>
    /\ UNCHANGED buildervars

(* A player that keeps the candidates of the last axis only *)
GeneratedAlone(acc) ==
    /\ candidates' = SubSeq(acc.cands, Len(candidates) + 1, Len(acc.cands))
    /\ gpc' = IF acc.err # "ok" THEN "aborted"
              ELSE IF Board_is_empty(board) \/ axno + 1 = 2 * SIZE THEN "done"
              ELSE "axis"

(* the candidates found on the axis are kept, and the next axis is taken   *)
(* unless an assert failed or this was the last axis                       *)
Generated(acc) ==
    /\ candidates' = acc.cands
    /\ gpc' = IF acc.err # "ok" THEN "aborted"
              ELSE IF Board_is_empty(board) \/ axno + 1 = 2 * SIZE THEN "done"
              ELSE "axis"

(* axis.generate_moves(lpn) *)
GenerateMoves ==
    /\ gpc = "generate"
    /\ Generated(generate_moves(axis, lpn, candidates))
    /\ axno' = IF Board_is_empty(board) THEN axno ELSE axno + 1
    /\ UNCHANGED <<board, rack, lpn, axis, order>>
    /\ UNCHANGED buildervars

GenNext ==
    \/ LeftParts
    \/ InitCenterAxis
    \/ MarkCenter
    \/ InitAxis
    \/ GenerateMoves

GenSpec == GenInit /\ [][GenNext]_vars

(* The games of the examples: the graph of the word list of the module     *)
(* docstring of dawgbuilder.py, and a first move with the rack "caters", a *)
(* move with a blank tile next to the "t" on the center square, and a move *)
(* that goes on from the "ca" on the center column                         *)
ExampleDb == finish(AddAll(NewDawg, ExampleFile, 1))

(* an Alphabet class modified for the letters a..z, as the docstring of    *)
(* class Alphabet provides for                                             *)
LatinOrder ==
    << "a", "b", "c", "d", "e", "f", "g", "h", "i", "j", "k", "l", "m",
       "n", "o", "p", "q", "r", "s", "t", "u", "v", "w", "x", "y", "z" >>

FirstMove == <<EmptyBoard, <<"c", "a", "t", "e", "r", "s">> >>

BlankMove == <<Lay(EmptyBoard, <<"t">>, 7, 7, TRUE), <<"?", "a">> >>

LeftPartMove == <<Lay(EmptyBoard, <<"c", "a">>, 6, 7, FALSE), <<"t", "r", "s">> >>

ScenarioInit ==
    /\ dawg = ExampleDb
    /\ lastword = <<>>
    /\ source = "game"
    /\ pc = "game"
    /\ filter = "nofilter"
    /\ nread = 0
    /\ word = <<>>
    /\ outcome = "none"
    /\ stream = <<>>
    /\ added = {}
    /\ infiles = <<>>
    /\ \E game \in {FirstMove, BlankMove, LeftPartMove} : board = game[1] /\ rack = game[2]
    /\ lpn = [kind |-> "None"]
    /\ axno = 0
    /\ axis = <<>>
    /\ candidates = <<>>
    /\ gpc = "start"
    /\ order = LatinOrder

ScenarioSpec == ScenarioInit /\ [][GenNext]_vars

----------------------------------------------------------------------------
(* The moves found *)

Moves == {candidates[i] : i \in 1..Len(candidates)}

(* the number of times c is in the string s *)
Count(s, c) == Cardinality({i \in 1..Len(s) : s[i] = c})

(* the tiles a move takes from the rack, a blank tile as "?" *)
TilesOf(m) == [k \in 1..Len(m.covers) |-> m.covers[k].tile]

(* C13 - move legality (a): the tiles of the covers of every move found,   *)
(* a blank tile counted as one "?", are tiles of the rack: no tile is in   *)
(* the covers more often than in the rack, and a tile that is not a blank  *)
(* is the letter it stands for.                                            *)
C13_TilesFromRack ==
    \A m \in Moves :
        /\ \A t \in {TilesOf(m)[k] : k \in 1..Len(m.covers)} : Count(TilesOf(m), t) <= Count(rack, t)
        /\ \A k \in 1..Len(m.covers) : m.covers[k].tile \in {"?", m.covers[k].letter}

(* all moves are found, and one of them lays a blank tile and a letter *)
C13_Witness ==
    /\ gpc = "done"
    /\ \E m \in Moves : \E j, k \in 1..Len(m.covers) :
          m.covers[j].tile = "?" /\ m.covers[k].tile # "?"

(* the k-th square of the word of move m; square 0 is the one before the   *)
(* word                                                                    *)
SquareOf(m, k) ==
    IF m.horizontal THEN <<m.row, m.col + k - 1>> ELSE <<m.row + k - 1, m.col>>

(* the covers of move m that lie on square rc *)
CoversAt(m, rc) == {j \in 1..Len(m.covers) : <<m.covers[j].row, m.covers[j].col>> = rc}

OnBoard(rc) == rc[1] \in 0..(SIZE - 1) /\ rc[2] \in 0..(SIZE - 1)

(* C14 - move legality (b): every move found lies on the 15 squares of its *)
(* axis, and with the board it forms the word it claims: a square under    *)
(* the word is covered by the letter of the word and gets no cover, or is  *)
(* empty and gets exactly one cover that means the letter; no cover lies   *)
(* elsewhere; the squares before and after the word are empty or off the   *)
(* board.                                                                  *)
C14_FormsWord ==
    \A m \in Moves :
        /\ OnBoard(SquareOf(m, 1))
        /\ OnBoard(SquareOf(m, Len(m.word)))
        /\ \A k \in 1..Len(m.word) :
              LET rc == SquareOf(m, k)
              IN IF is_covered(board, rc[1], rc[2])
                 THEN letter_at(board, rc[1], rc[2]) = m.word[k] /\ CoversAt(m, rc) = {}
                 ELSE /\ Cardinality(CoversAt(m, rc)) = 1
                      /\ \A j \in CoversAt(m, rc) : m.covers[j].letter = m.word[k]
        /\ \A j \in 1..Len(m.covers) :
              \E k \in 1..Len(m.word) : SquareOf(m, k) = <<m.covers[j].row, m.covers[j].col>>
        /\ ~is_covered(board, SquareOf(m, 0)[1], SquareOf(m, 0)[2])
        /\ ~is_covered(board, SquareOf(m, Len(m.word) + 1)[1], SquareOf(m, Len(m.word) + 1)[2])

(* all moves are found; one begins on the first square of its axis, and   *)
(* one runs from tiles of the board to the last square of its axis         *)
C14_Witness ==
    /\ gpc = "done"
    /\ \E m \in Moves : ~OnBoard(SquareOf(m, 0))
    /\ \E m \in Moves :
          /\ ~OnBoard(SquareOf(m, Len(m.word) + 1))
          /\ Len(m.word) > Len(m.covers)

(* the word that the j-th cover of move m makes across the move, with the  *)
(* tiles of the board before and after it                                  *)
CrossWord(m, j) ==
    LET c == m.covers[j]
    IN IF m.horizontal
       THEN letters_above(board, c.row, c.col) \o <<c.letter>> \o letters_below(board, c.row, c.col)
       ELSE letters_left(board, c.row, c.col) \o <<c.letter>> \o letters_right(board, c.row, c.col)

(* C15 - move legality (c): for every move found and every square it       *)
(* covers, the word across the move that the letter makes with the tiles   *)
(* of the board before and after it is, when longer than one letter, a     *)
(* word of the Dawg.                                                       *)
C15_CrossWordsValid ==
    \A m \in Moves : \A j \in 1..Len(m.covers) :
        Len(CrossWord(m, j)) > 1 => CrossWord(m, j) \in WordSet

(* all moves are found; one of them lays two tiles or more, one of which   *)
(* makes a word across with tiles of the board, and one has a tile of its  *)
(* left part before the anchor                                             *)
C15_Witness ==
    /\ gpc = "done"
    /\ \E m \in Moves : \E j, k \in 1..Len(m.covers) :
          /\ j # k
          /\ Len(CrossWord(m, j)) > 1
          /\ Len(CrossWord(m, k)) = 1
    /\ \E m \in Moves :
          /\ Len(m.covers) = Len(m.word)
          /\ Len(m.covers) > 1
          /\ ~has_adjacent(board, m.covers[1].row, m.covers[1].col)

(* generate_moves, lines 276-286: the last anchor before square i, or -1 *)
LastAnchorBefore(ax, i) ==
    LET before == {j \in 0..(i - 1) : ax.sq[j].anchor}
    IN IF before = {} THEN -1 ELSE CHOOSE j \in before : \A k \in before : k <= j

(* the moves generate_moves finds from the anchor at square i of the axis *)
MovesFromAnchor(ax, i) ==
    LET found == gen_moves_from_anchor(ax, i,
                     Min(OpenSquares(ax, i, LastAnchorBefore(ax, i)), Len(ax.rack) - 1),
                     lpn, [cands |-> <<>>, err |-> "ok", runs |-> <<>>]).cands
    IN {found[k] : k \in 1..Len(found)}

(* C16 - move legality (d): every move found lays at least one tile of the *)
(* rack; on a board with tiles one of the squares it covers adjoins a tile *)
(* of the board, and on the empty board it covers the center square; and   *)
(* every move found from an anchor covers that anchor, a move that         *)
(* continues a left part that is a word as well.                           *)
C16_CoversAnchor ==
    /\ \A m \in Moves :
          /\ Len(m.covers) >= 1
          /\ IF Board_is_empty(board)
             THEN CoversAt(m, <<SIZE \div 2, SIZE \div 2>>) # {}
             ELSE \E j \in 1..Len(m.covers) : has_adjacent(board, m.covers[j].row, m.covers[j].col)
    /\ gpc = "generate" =>
          \A i \in 0..(SIZE - 1) :
              axis.sq[i].anchor =>
                  \A m \in MovesFromAnchor(axis, i) : CoversAt(m, coordinate_of(axis, i)) # {}

(* all moves are found; one continues a word on the board with one tile,   *)
(* and one continues a left part from the rack that is a word with a tile  *)
(* on the anchor                                                           *)
C16_Witness ==
    /\ gpc = "done"
    /\ ~Board_is_empty(board)
    /\ \E m \in Moves :
          /\ Len(m.covers) = 1
          /\ Len(m.word) >= 3
          /\ SubSeq(m.word, 1, Len(m.word) - 1) \in WordSet
          /\ CoversAt(m, SquareOf(m, Len(m.word))) # {}
    /\ \E m \in Moves :
          /\ Len(m.covers) = Len(m.word)
          /\ Len(m.word) >= 3
          /\ SubSeq(m.word, 1, Len(m.word) - 1) \in WordSet
          /\ \A j \in 1..Len(m.covers) :
                has_adjacent(board, m.covers[j].row, m.covers[j].col)
                    <=> <<m.covers[j].row, m.covers[j].col>> = SquareOf(m, Len(m.word))

----------------------------------------------------------------------------
(* The legal moves, by the rules (a) to (d), and the moves found *)

(* a move as its word, start, orientation and covers *)
MoveOf(m) ==
    [word |-> m.word, row |-> m.row, col |-> m.col, horizontal |-> m.horizontal,
     covers |-> m.covers]

(* the empty squares under the word w laid from (row, col) on *)
EmptyUnder(w, row, col, horizontal) ==
    {k \in 1..Len(w) :
        LET rc == IF horizontal THEN <<row, col + k - 1>> ELSE <<row + k - 1, col>>
        IN ~is_covered(board, rc[1], rc[2])}

(* the k-th, in the order of the numbers, of a set of numbers *)
Nth(S, k) == CHOOSE n \in S : Cardinality({x \in S : x < n}) = k - 1

(* the move that lays w from (row, col) on and takes the tile t[k] for the *)
(* k-th letter of the word                                                 *)
Placement(w, row, col, horizontal, t) ==
    LET ks == EmptyUnder(w, row, col, horizontal)
    IN [word |-> w, row |-> row, col |-> col, horizontal |-> horizontal,
        covers |-> [j \in 1..Cardinality(ks) |->
                      LET k == Nth(ks, j)
                      IN [row |-> IF horizontal THEN row ELSE row + k - 1,
                          col |-> IF horizontal THEN col + k - 1 ELSE col,
                          tile |-> t[k], letter |-> w[k]]]]

(* rule (a): the tiles are tiles of the rack *)
LegalTiles(m) ==
    \A t \in {TilesOf(m)[k] : k \in 1..Len(m.covers)} : Count(TilesOf(m), t) <= Count(rack, t)

(* rule (b): the tiles of the board under the word are its letters, and    *)
(* the squares before and after the word are empty or off the board        *)
LegalWord(m) ==
    /\ OnBoard(SquareOf(m, 1))
    /\ OnBoard(SquareOf(m, Len(m.word)))
    /\ \A k \in 1..Len(m.word) :
          is_covered(board, SquareOf(m, k)[1], SquareOf(m, k)[2])
              => letter_at(board, SquareOf(m, k)[1], SquareOf(m, k)[2]) = m.word[k]
    /\ ~is_covered(board, SquareOf(m, 0)[1], SquareOf(m, 0)[2])
    /\ ~is_covered(board, SquareOf(m, Len(m.word) + 1)[1], SquareOf(m, Len(m.word) + 1)[2])

(* rule (c): the words across are words *)
LegalCross(m) ==
    \A j \in 1..Len(m.covers) : Len(CrossWord(m, j)) > 1 => CrossWord(m, j) \in WordSet

(* rule (d): a tile is laid, next to a tile of the board or on the center *)
LegalPlace(m) ==
    /\ Len(m.covers) >= 1
    /\ IF Board_is_empty(board)
       THEN CoversAt(m, <<SIZE \div 2, SIZE \div 2>>) # {}
       ELSE \E j \in 1..Len(m.covers) : has_adjacent(board, m.covers[j].row, m.covers[j].col)

(* the squares a legal move can cover by rule (d): the empty squares next  *)
(* to a tile, or the center of the empty board                             *)
Adjoining ==
    IF Board_is_empty(board) THEN {<<SIZE \div 2, SIZE \div 2>>}
    ELSE {rc \in (0..(SIZE - 1)) \X (0..(SIZE - 1)) :
             ~is_covered(board, rc[1], rc[2]) /\ has_adjacent(board, rc[1], rc[2])}

(* the words laid over the square rc, each with its own tiles, that are    *)
(* legal by rule (b)                                                       *)
WordsOver(rc) ==
    {m \in UNION {{Placement(w, IF h THEN rc[1] ELSE rc[1] - k + 1,
                                IF h THEN rc[2] - k + 1 ELSE rc[2], h, w)
                      : k \in 1..Len(w), h \in BOOLEAN}
                  : w \in WordSet} : LegalWord(m)}

(* the move m with every choice of a blank tile or the letter's own tile *)
WithTiles(m) ==
    {[m EXCEPT !.covers = [j \in 1..Len(m.covers) |-> [m.covers[j] EXCEPT !.tile = t[j]]]] :
        t \in {f \in [1..Len(m.covers) -> {"?"} \cup {m.covers[j].letter : j \in 1..Len(m.covers)}] :
                  \A j \in 1..Len(m.covers) : f[j] \in {"?", m.covers[j].letter}}}

(* every legal move of the rack on the board *)
LegalMoves ==
    {m \in UNION {WithTiles(p) : p \in UNION {WordsOver(rc) : rc \in Adjoining}} :
        LegalTiles(m) /\ LegalWord(m) /\ LegalCross(m) /\ LegalPlace(m)}

(* the tiles of the covers from the j-th on are the ones the rack r gives  *)
(* when a letter takes its own tile as long as there is one                *)
RECURSIVE OwnTileFirst(_, _, _)
OwnTileFirst(m, j, r) ==
    IF j > Len(m.covers) THEN TRUE
    ELSE LET c == m.covers[j]
         IN IF InStr(c.letter, r)
            THEN c.tile = c.letter /\ OwnTileFirst(m, j + 1, RemoveFirst(r, c.letter))
            ELSE c.tile = "?" /\ InStr("?", r) /\ OwnTileFirst(m, j + 1, RemoveFirst(r, "?"))

(* the number of times the move is among the candidates *)
TimesFound(m) == Cardinality({i \in 1..Len(candidates) : MoveOf(candidates[i]) = m})

----------------------------------------------------------------------------
(* The cross-checks and the anchors of an axis *)

(* an axis is initialised *)
AxisReady == gpc \in {"mark", "generate"}

(* the tiles of the board before and after square i of the axis, across it *)
Before(ax, i) ==
    IF ax.horizontal THEN letters_above(board, coordinate_of(ax, i)[1], coordinate_of(ax, i)[2])
    ELSE letters_left(board, coordinate_of(ax, i)[1], coordinate_of(ax, i)[2])

After(ax, i) ==
    IF ax.horizontal THEN letters_below(board, coordinate_of(ax, i)[1], coordinate_of(ax, i)[2])
    ELSE letters_right(board, coordinate_of(ax, i)[1], coordinate_of(ax, i)[2])

(* the default mask: every letter if the rack has a blank tile, else the   *)
(* letters of the rack                                                     *)
DefaultMask ==
    {n \in 0..(Len(order) - 1) : InStr(order[n + 1], rack) \/ InStr("?", rack)}

(* C18 - cross-check soundness: when an axis is initialised, the mask of   *)
(* each of its empty squares has the bit of a letter set if and only if    *)
(* the word that the letter makes across the axis with the tiles before    *)
(* and after the square, if there are any, is a word of the Dawg, and the  *)
(* letter is in the rack or the rack has a blank tile; the mask of an      *)
(* empty square with no tile before or after it is the default mask.       *)
C18_CrossCheckSound ==
    AxisReady =>
        \A i \in 0..(SIZE - 1) :
            ~is_covered(board, coordinate_of(axis, i)[1], coordinate_of(axis, i)[2]) =>
                /\ axis.sq[i].cc =
                      {n \in 0..(Len(order) - 1) :
                          /\ Len(Before(axis, i)) + Len(After(axis, i)) > 0
                                => (Before(axis, i) \o <<order[n + 1]>> \o After(axis, i)) \in WordSet
                          /\ InStr(order[n + 1], rack) \/ InStr("?", rack)}
                /\ Len(Before(axis, i)) + Len(After(axis, i)) = 0 => axis.sq[i].cc = DefaultMask

(* an axis is initialised for a rack with a blank tile; one of its empty   *)
(* squares has tiles across and a mask that is cut down to some letters,   *)
(* one has tiles across and no letter left, and one has none and the       *)
(* default mask                                                            *)
C18_Witness ==
    /\ gpc = "generate"
    /\ InStr("?", rack)
    /\ \E i, j, k \in 0..(SIZE - 1) :
          /\ Axis_is_empty(axis, i) /\ Axis_is_empty(axis, j) /\ Axis_is_empty(axis, k)
          /\ Len(Before(axis, i)) > 0
          /\ axis.sq[i].cc \notin {{}, DefaultMask}
          /\ Len(Before(axis, j)) + Len(After(axis, j)) > 0
          /\ axis.sq[j].cc = {}
          /\ Len(Before(axis, k)) + Len(After(axis, k)) = 0
          /\ axis.sq[k].cc = all_bits_set

(* The claim C19 as it stands: when an axis is initialised, the mask of    *)
(* each of its covered squares is 0                                        *)
C19_Original ==
    AxisReady =>
        \A i \in 0..(SIZE - 1) :
            is_covered(board, coordinate_of(axis, i)[1], coordinate_of(axis, i)[2])
                => axis.sq[i].cc = {}

(* a square next to square i of the axis, on the axis or across it, is     *)
(* covered                                                                 *)
NeighbourCovered(ax, i) == has_adjacent(board, coordinate_of(ax, i)[1], coordinate_of(ax, i)[2])

(* square i of the axis is not covered *)
EmptyOnBoard(ax, i) == ~is_covered(board, coordinate_of(ax, i)[1], coordinate_of(ax, i)[2])

(* on the empty board the axis is the center column and its only anchor    *)
(* is the center square                                                    *)
OnlyCenterAnchor ==
    /\ ~axis.horizontal
    /\ axis.index = SIZE \div 2
    /\ \A i \in 0..(SIZE - 1) : axis.sq[i].anchor <=> i = SIZE \div 2

----------------------------------------------------------------------------
(* The order of canonicalization *)

(* the entries of the history that are tests against the table, and those  *)
(* that are calls of _collapse                                             *)
Lookups == {k \in 1..Len(dawg.trace) : dawg.trace[k].ev = "lookup" /\ dawg.trace[k].node # None}

Collapses == {k \in 1..Len(dawg.trace) : dawg.trace[k].ev = "collapse"}

(* the nodes stored in the table before the k-th entry of the history *)
StoredBefore(k) ==
    {dawg.trace[j].node : j \in {i \in 1..(k - 1) : dawg.trace[i].ev = "lookup" /\ ~dawg.trace[i].hit}}

(* the edges dict of node n was given to _collapse before the k-th entry,  *)
(* or has no edges                                                         *)
CollapsedBefore(n, k) ==
    \/ dawg.heap[dawg.nodes[n].edges] = <<>>
    \/ \E j \in Collapses : j < k /\ dawg.trace[j].dict = dawg.nodes[n].edges

BuildDone == pc \in {"finished", "written", "direct_finished"}

(* C25 - bottom-up canonicalization: whenever _collapse_branch tests a     *)
(* node against the table of unique nodes (and stores it when it is new),  *)
(* every child of the node is None (the sink) or a node stored in the      *)
(* table before, the node's edges dict has been collapsed before, and the  *)
(* edges of the node are those it has ever after; no dict is given to      *)
(* _collapse twice; the edges dicts of the children in a dict given to     *)
(* _collapse were collapsed before it; and when the build is done every    *)
(* edges dict that has edges was collapsed, the root dict last of all.     *)
C25_BottomUp ==
    /\ \A k \in Lookups :
          /\ \A i \in 1..Len(dawg.trace[k].edges) :
                \/ dawg.trace[k].edges[i].v = None
                \/ dawg.trace[k].edges[i].v \in StoredBefore(k)
          /\ CollapsedBefore(dawg.trace[k].node, k)
          /\ dawg.heap[dawg.nodes[dawg.trace[k].node].edges] = dawg.trace[k].edges
    /\ \A k1, k2 \in Collapses : dawg.trace[k1].dict = dawg.trace[k2].dict => k1 = k2
    /\ \A k \in Collapses : \A i \in 1..Len(dawg.trace[k].edges) :
          dawg.trace[k].edges[i].v # None => CollapsedBefore(dawg.trace[k].edges[i].v, k)
    /\ BuildDone =>
          /\ \A n \in 1..Len(dawg.nodes) : CollapsedBefore(n, Len(dawg.trace) + 1)
          /\ Collapses # {}
          /\ \A k \in Collapses :
                dawg.trace[k].dict = RootDict <=> \A j \in Collapses : j <= k

(* a build is done in which a node with two edges, one of them to a node   *)
(* of the table, was stored, and a node was found in the table             *)
C25_Witness ==
    /\ BuildDone
    /\ \E k \in Lookups :
          /\ ~dawg.trace[k].hit
          /\ Len(dawg.trace[k].edges) > 1
          /\ \E i \in 1..Len(dawg.trace[k].edges) : dawg.trace[k].edges[i].v # None
    /\ \E k \in Lookups : dawg.trace[k].hit
    /\ Cardinality(Collapses) > 3

(* the nodes stored in the table of unique nodes of graph S *)
Stored(S) == {S.unique[i].v : i \in 1..Len(S.unique)} \ {None}

(* the string __str__ makes of node n when none is cached *)
FreshStr(S, n) ==
    stringify_edges(S, S.nodes[n].edges, IF S.nodes[n].final THEN <<(<<"|">>)>> ELSE <<>>)

(* C26 - canonical nodes are immutable: a step of the build leaves every   *)
(* node stored in the table of unique nodes in the table, with its final   *)
(* flag, its edges dict and the items of the dict as they were; the id of  *)
(* such a node changes only in the step of finish(), which leaves no       *)
(* string cached for it; and in every state the string cached for a node   *)
(* of the table is the string __str__ would make of it, so that no test    *)
(* against the table meets a stale signature.                              *)
C26_CanonicalImmutable ==
    /\ [](\A n \in Stored(dawg) :
            dawg.nodes[n].strng # <<>> => dawg.nodes[n].strng = FreshStr(dawg, n))
    /\ [][\A n \in Stored(dawg) :
            /\ n \in Stored(dawg')
            /\ dawg'.nodes[n].final = dawg.nodes[n].final
            /\ dawg'.nodes[n].edges = dawg.nodes[n].edges
            /\ dawg'.heap[dawg.nodes[n].edges] = dawg.heap[dawg.nodes[n].edges]
            /\ dawg'.nodes[n].id # dawg.nodes[n].id =>
                  /\ pc \in {"load", "direct"}
                  /\ pc' \in {"finished", "direct_finished"}
                  /\ dawg'.nodes[n].strng = <<>>]_vars

(* a build is done in which a node of the table got a new id, and another  *)
(* node had been found in the table                                        *)
C26_Witness ==
    /\ BuildDone
    /\ \E n \in Stored(dawg) : dawg.nodes[n].id # n /\ dawg.heap[dawg.nodes[n].edges] # <<>>
    /\ \E k \in Lookups : dawg.trace[k].hit

----------------------------------------------------------------------------
(* The examples of move generation *)

(* the words of the example other than those with "do" *)
ExampleWords ==
    { <<"c", "a", "t">>, <<"c", "a", "t", "s">>, <<"c", "a", "r">>, <<"c", "a", "r", "s">>,
      <<"e", "a", "r">>, <<"e", "a", "r", "s">>, <<"e", "a", "t">>, <<"e", "a", "t", "s">> }

Center == <<SIZE \div 2, SIZE \div 2>>

(* move m lays all of word w from its rack, from (row, col) on *)
LaysWord(m, w, row, col, horizontal) ==
    /\ m.word = w
    /\ m.row = row
    /\ m.col = col
    /\ m.horizontal = horizontal
    /\ Len(m.covers) = Len(w)
    /\ \A k \in 1..Len(w) :
          /\ <<m.covers[k].row, m.covers[k].col>> = SquareOf(m, k)
          /\ m.covers[k].tile = w[k]
          /\ m.covers[k].letter = w[k]

FirstMoveDone == gpc = "done" /\ <<board, rack>> = FirstMove

Runs == generate_moves(axis, lpn, candidates).runs

(* the first call in the history of a navigation: navigate or resume *)
StartOf(nav) == nav.calls[1]

----------------------------------------------------------------------------
(* The navigations run for an axis *)

(* how a navigation was started: the kind of the navigator, the call, the  *)
(* anchor (-1 for a LeftFindNavigator), the letters matched before it (for *)
(* a LeftFindNavigator the letters to find) and the rack it was given      *)
StartSig(nav) ==
    [kind |-> nav.kind, op |-> StartOf(nav).op,
     anchor |-> IF nav.kind = "ER" THEN nav.anchor ELSE -1,
     matched |-> IF nav.kind = "LF" THEN nav.prefix ELSE StartOf(nav).matched,
     rack |-> StartOf(nav).rack]

(* square j of the axis counts as free on the left of an anchor: empty and *)
(* no anchor, and with open asked its cross-check mask is not 0 as well    *)
FreeSquare(ax, j, open) ==
    /\ EmptyOnBoard(ax, j)
    /\ ~ax.sq[j].anchor
    /\ open => ax.sq[j].cc # {}

(* the number of free squares in a row immediately left of square a and    *)
(* strictly right of square prev                                           *)
OpenLeft(ax, a, prev, open) ==
    LET stops == {prev} \cup {j \in (prev + 1)..(a - 1) : ~FreeSquare(ax, j, open)}
    IN a - 1 - (CHOOSE j \in stops : \A k \in stops : k <= j)

(* the covered squares in a row that end at square a - 1, as letters *)
RunLeftOf(ax, a) ==
    LET first == CHOOSE f \in 0..a : /\ \A j \in f..(a - 1) : ~EmptyOnBoard(ax, j)
                                     /\ f > 0 => EmptyOnBoard(ax, f - 1)
    IN [k \in 1..(a - first) |-> letter_at(board, coordinate_of(ax, first + k - 1)[1],
                                            coordinate_of(ax, first + k - 1)[2])]

(* some word starts with the letters lp *)
StartsWord(lp) == \E w \in WordSet : Len(w) >= Len(lp) /\ SubSeq(w, 1, Len(lp)) = lp

(* the navigations resumed at anchor a for the left parts of length len to *)
(* maxleft of the table of lpn, in the order of the table                  *)
RECURSIVE ResumesDue(_, _, _)
ResumesDue(a, len, maxleft) ==
    IF len > maxleft THEN <<>>
    ELSE [k \in 1..Len(lpn.leftparts[len]) |->
             [kind |-> "ER", op |-> "resume", anchor |-> a,
              matched |-> lpn.leftparts[len][k].matched,
              rack |-> lpn.leftparts[len][k].rack]]
         \o ResumesDue(a, len + 1, maxleft)

(* the navigations due for the anchor at square a with maxleft *)
DueAt(ax, a, maxleft) ==
    IF maxleft = 0 /\ a > 0 /\ ~EmptyOnBoard(ax, a - 1)
    THEN <<[kind |-> "LF", op |-> "navigate", anchor |-> -1,
            matched |-> RunLeftOf(ax, a), rack |-> <<>>]>>
         \o IF StartsWord(RunLeftOf(ax, a))
            THEN <<[kind |-> "ER", op |-> "resume", anchor |-> a,
                    matched |-> RunLeftOf(ax, a), rack |-> rack]>>
            ELSE <<>>
    ELSE <<[kind |-> "ER", op |-> "navigate", anchor |-> a, matched |-> <<>>, rack |-> rack]>>
         \o ResumesDue(a, 1, maxleft)

(* the navigations due for the anchors from square i on, left to right;    *)
(* prev is the anchor before square i, or -1                               *)
RECURSIVE DueFrom(_, _, _, _)
DueFrom(ax, i, prev, open) ==
    IF i >= SIZE THEN <<>>
    ELSE IF ax.sq[i].anchor
    THEN DueAt(ax, i, IF OpenLeft(ax, i, prev, open) < Len(rack) - 1
                      THEN OpenLeft(ax, i, prev, open) ELSE Len(rack) - 1)
         \o DueFrom(ax, i + 1, i, open)
    ELSE DueFrom(ax, i + 1, prev, open)

RunsStarted == [k \in 1..Len(Runs) |-> StartSig(Runs[k])]

----------------------------------------------------------------------------
(* The table of left parts *)

(* the tiles taken from rack r for the letters of matched from the k-th    *)
(* on: the tile of the letter when r has one, a blank tile otherwise       *)
RECURSIVE TilesTaken(_, _, _)
TilesTaken(matched, k, r) ==
    IF k > Len(matched) THEN <<>>
    ELSE IF InStr(matched[k], r)
    THEN <<matched[k]>> \o TilesTaken(matched, k + 1, RemoveFirst(r, matched[k]))
    ELSE <<"?">> \o TilesTaken(matched, k + 1, RemoveFirst(r, "?"))

(* the strings s and t hold the same tiles as often *)
SameTiles(s, t) ==
    /\ Len(s) = Len(t)
    /\ \A i \in 1..Len(s) : Count(s, s[i]) = Count(t, s[i])

(* C27 - the table of left parts: after LeftPermutationNavigator has gone  *)
(* over the graph with a rack R of more than one tile, no IndexError was   *)
(* raised, the table has the lengths 1..|R|-1 and no other, and every      *)
(* entry stored under length len has len letters matched and a rack of     *)
(* |R| - len tiles left which, together with the tiles taken for the       *)
(* letters matched (for each letter its tile when the rack left had one,   *)
(* else a blank tile), is R as a multiset.                                 *)
C27_LeftPartTable ==
    lpn.kind = "LP" =>
        /\ lpn.err = "ok"
        /\ Len(rack) > 1
        /\ DOMAIN lpn.leftparts = 1..(Len(rack) - 1)
        /\ \A len \in DOMAIN lpn.leftparts : \A k \in 1..Len(lpn.leftparts[len]) :
              /\ 1 <= len /\ len <= Len(rack) - 1
              /\ Len(lpn.leftparts[len][k].matched) = len
              /\ Len(lpn.leftparts[len][k].rack) = Len(rack) - len
              /\ Len(TilesTaken(lpn.leftparts[len][k].matched, 1, rack)) = len
              /\ SameTiles(lpn.leftparts[len][k].rack
                             \o TilesTaken(lpn.leftparts[len][k].matched, 1, rack), rack)

(* a table with a left part of two letters for which the tile of a letter  *)
(* and a blank tile were taken, and one for which two tiles of letters     *)
(* were taken although the rack has a blank tile                           *)
C27_Witness ==
    /\ lpn.kind = "LP"
    /\ Len(rack) = 3
    /\ \E k \in 1..Len(lpn.leftparts[2]) :
          /\ InStr("?", TilesTaken(lpn.leftparts[2][k].matched, 1, rack))
          /\ ~InStr("?", lpn.leftparts[2][k].rack)
    /\ \E k \in 1..Len(lpn.leftparts[2]) :
          /\ ~InStr("?", TilesTaken(lpn.leftparts[2][k].matched, 1, rack))
          /\ InStr("?", lpn.leftparts[2][k].rack)

----------------------------------------------------------------------------
(* The edges a navigator enters and leaves *)

(* the number of calls of pop_edge among the first n calls *)
RECURSIVE Pops(_, _)
Pops(calls, n) ==
    IF n = 0 THEN 0
    ELSE Pops(calls, n - 1) + (IF calls[n].op = "pop_edge" THEN 1 ELSE 0)

(* the number of calls of push_edge that returned True among the first n *)
RECURSIVE Pushes(_, _)
Pushes(calls, n) ==
    IF n = 0 THEN 0
    ELSE Pushes(calls, n - 1)
         + (IF calls[n].op = "push_edge" /\ calls[n].ok THEN 1 ELSE 0)

(* the call of push_edge that entered the edge which a pop_edge leaves:    *)
(* going back from call q, with depth edges entered and left in between;   *)
(* 0 when there is none                                                    *)
RECURSIVE PushOf(_, _, _)
PushOf(calls, q, depth) ==
    IF q = 0 THEN 0
    ELSE IF calls[q].op = "pop_edge" THEN PushOf(calls, q - 1, depth + 1)
    ELSE IF calls[q].op = "push_edge" /\ calls[q].ok
    THEN IF depth = 0 THEN q ELSE PushOf(calls, q - 1, depth - 1)
    ELSE PushOf(calls, q - 1, depth)

(* the history of a navigator keeps the discipline: never more edges left  *)
(* than entered, and a pop_edge returns True and gives back the rack and   *)
(* the index that the navigator had when it entered the edge               *)
Disciplined(nav) ==
    /\ nav.err # "IndexError"
    /\ \A p \in 1..Len(nav.calls) :
          /\ Pops(nav.calls, p) <= Pushes(nav.calls, p)
          /\ nav.calls[p].op = "pop_edge" =>
                /\ nav.calls[p].ok
                /\ PushOf(nav.calls, p - 1, 0) # 0
                /\ nav.calls[p].rack2 = nav.calls[PushOf(nav.calls, p - 1, 0)].rack
                /\ nav.calls[p].index2 = nav.calls[PushOf(nav.calls, p - 1, 0)].index

(* the deepest the navigator was in edges it entered *)
Deepest(nav) ==
    LET depth(p) == Pushes(nav.calls, p) - Pops(nav.calls, p)
    IN IF nav.calls = <<>> THEN 0
       ELSE CHOOSE n \in 0..Len(nav.calls) :
                /\ \E p \in 1..Len(nav.calls) : depth(p) = n \/ n = 0
                /\ \A p \in 1..Len(nav.calls) : depth(p) <= n
                /\ n = 0 \/ \E p \in 1..Len(nav.calls) : depth(p) = n

(* the run was resumed within an edge: the first call after the start is   *)
(* accepts, for a letter of the edge that the left part ended in           *)
ResumedInEdge(nav) ==
    /\ Len(nav.calls) > 1
    /\ nav.calls[1].op = "resume"
    /\ nav.calls[2].op = "accepts"

(* C28 - the discipline of push_edge and pop_edge: in the navigation of    *)
(* LeftPermutationNavigator and in every run of ExtendRightNavigator for   *)
(* an axis, started by navigate or by resume, pop_edge is never called     *)
(* more often than push_edge has returned True, so that the stack is       *)
(* never popped when empty, and each pop_edge returns True and restores    *)
(* the rack and the index to what they were at the push_edge that entered  *)
(* the edge.                                                               *)
C28_PushPop ==
    /\ lpn.kind = "LP" => Disciplined(lpn)
    /\ gpc = "generate" =>
          \A k \in 1..Len(Runs) : Runs[k].kind = "ER" => Disciplined(Runs[k])

(* the left parts were found two edges deep; the axis has a run that was   *)
(* resumed within an edge, a run that was resumed at the end of one, which *)
(* entered further edges and left them with a rack and an index that had   *)
(* changed in them, and a run from the root that was two edges deep        *)
C28_Witness ==
    /\ gpc = "generate"
    /\ lpn.kind = "LP"
    /\ Deepest(lpn) >= 2
    /\ \E k \in 1..Len(Runs) : Runs[k].kind = "ER" /\ ResumedInEdge(Runs[k])
    /\ \E k \in 1..Len(Runs) :
          /\ Runs[k].kind = "ER"
          /\ Runs[k].calls[1].op = "resume"
          /\ \E p \in 1..Len(Runs[k].calls) :
                /\ Runs[k].calls[p].op = "pop_edge"
                /\ Runs[k].calls[p].rack # Runs[k].calls[p].rack2
                /\ Runs[k].calls[p].index # Runs[k].calls[p].index2
    /\ \E k \in 1..Len(Runs) :
          /\ Runs[k].kind = "ER"
          /\ Runs[k].calls[1].op = "navigate"
          /\ Deepest(Runs[k]) >= 2

----------------------------------------------------------------------------
(* The moves that ExtendRightNavigator emits *)

(* the calls of accept in the runs of ExtendRightNavigator among runs *)
AcceptCalls(runs) ==
    UNION {{runs[k].calls[p] : p \in {q \in 1..Len(runs[k].calls) :
                                          runs[k].calls[q].op = "accept"}} :
             k \in {n \in 1..Len(runs) : runs[n].kind = "ER"}}

(* the square at index ix of the axis is off the board or empty *)
FreeAt(ix) == ix >= SIZE \/ Axis_is_empty(axis, ix)

(* the call of accept is one that is to emit a move *)
Emitting(c) == c.final /\ Len(c.matched) > 1 /\ FreeAt(c.index)

(* C29 - the condition of emission: in every run of ExtendRightNavigator   *)
(* for an axis, a call of accept adds a move to the candidates if and only *)
(* if final is true, matched has more than one letter and the square at    *)
(* the navigator's index is off the board or empty; and no candidate move  *)
(* is a word of one letter or a word with a tile of the board on the       *)
(* square after it.                                                        *)
C29_Emission ==
    /\ gpc = "generate" => \A c \in AcceptCalls(Runs) : c.ok <=> Emitting(c)
    /\ \A k \in 1..Len(candidates) :
          /\ Len(candidates[k].word) > 1
          /\ \/ ~OnBoard(SquareOf(candidates[k], Len(candidates[k].word) + 1))
             \/ SquareOf(candidates[k], Len(candidates[k].word) + 1) \notin DOMAIN board

(* the calls of accept for an axis have one that emits, and three that do  *)
(* not: one for a word of one letter, one for a word that a tile of the    *)
(* board follows, and one for letters that are not a word                  *)
Emissions(calls) ==
    /\ \E c \in calls : c.ok
    /\ \E c \in calls : ~c.ok /\ c.final /\ Len(c.matched) = 1 /\ FreeAt(c.index)
    /\ \E c \in calls : ~c.ok /\ c.final /\ Len(c.matched) > 1 /\ ~FreeAt(c.index)
    /\ \E c \in calls : ~c.ok /\ ~c.final /\ Len(c.matched) > 1 /\ FreeAt(c.index)

C29_Witness == gpc = "generate" /\ Emissions(AcceptCalls(Runs))

----------------------------------------------------------------------------
(* The tiles a navigator takes from its rack *)

(* the calls of accepts in the history of navigator nav *)
AcceptsCalls(nav) ==
    {nav.calls[p] : p \in {q \in 1..Len(nav.calls) : nav.calls[q].op = "accepts"}}

(* the calls of accepts in the runs of ExtendRightNavigator among runs *)
AcceptsCallsOf(runs) ==
    UNION {AcceptsCalls(runs[k]) : k \in {n \in 1..Len(runs) : runs[n].kind = "ER"}}

(* the call left the rack and the index as they were *)
Untouched(c) == c.rack2 = c.rack /\ c.index2 = c.index

(* the call took the tile t, and no other, from the rack *)
Took(c, t) ==
    /\ InStr(t, c.rack)
    /\ Len(c.rack2) = Len(c.rack) - 1
    /\ \A i \in 1..Len(c.rack) :
          Count(c.rack2, c.rack[i]) = Count(c.rack, c.rack[i]) - (IF c.rack[i] = t THEN 1 ELSE 0)

(* the call took from the rack the tile of its letter, or a blank tile     *)
(* when the rack had no tile of the letter                                 *)
TookOwnTile(c) == Took(c, IF InStr(c.ch, c.rack) THEN c.ch ELSE "?")

(* the call of accepts, made at a square that has a tile of the board      *)
(* (onboard) or has none, did to the rack and the index what it is to do   *)
Consumed(c, onboard) ==
    IF ~c.ok THEN Untouched(c)
    ELSE IF onboard THEN c.rack2 = c.rack /\ c.index2 = c.index + 1
    ELSE TookOwnTile(c) /\ c.index2 = c.index + 1

(* C30 - the tiles taken: a call of accepts of LeftPermutationNavigator or *)
(* of ExtendRightNavigator that accepts a letter c for a tile of the rack  *)
(* takes exactly one tile from the rack, a tile c when the rack has one    *)
(* and a blank tile only when it has none; a call that accepts the letter  *)
(* of a tile on the board moves the index on by one and leaves the rack;   *)
(* a call that refuses the letter leaves the rack and the index.           *)
C30_TileConsumption ==
    /\ lpn.kind = "LP" => \A c \in AcceptsCalls(lpn) : Consumed(c, FALSE)
    /\ gpc = "generate" =>
          \A c \in AcceptsCallsOf(Runs) : Consumed(c, ~Axis_is_empty(axis, c.index))

(* the calls cs have one that takes a blank tile for a letter that the     *)
(* rack has not, one that takes the tile of the letter from a rack that    *)
(* has a blank tile as well, and one that refuses                          *)
TakesBoth(cs) ==
    /\ \E c \in cs : c.ok /\ ~InStr(c.ch, c.rack) /\ InStr("?", c.rack) /\ c.rack2 # c.rack
    /\ \E c \in cs : c.ok /\ InStr(c.ch, c.rack) /\ InStr("?", c.rack) /\ c.rack2 # c.rack
    /\ \E c \in cs : ~c.ok

(* both navigators took tiles of both kinds and refused letters, and       *)
(* ExtendRightNavigator accepted the letter of a tile on the board while   *)
(* it held a rack with a tile of that letter                               *)
C30_Witness ==
    /\ gpc = "generate"
    /\ lpn.kind = "LP"
    /\ TakesBoth(AcceptsCalls(lpn))
    /\ TakesBoth(AcceptsCallsOf(Runs))
    /\ \E c \in AcceptsCallsOf(Runs) :
          c.ok /\ ~Axis_is_empty(axis, c.index) /\ InStr(c.ch, c.rack) /\ c.rack2 = c.rack

----------------------------------------------------------------------------
(* Left parts on the board that the graph does not have *)

(* Boards with tiles in a row that are the start of no word of the graph,  *)
(* as a game leaves them that was played with another word list: "ts",     *)
(* which leaves the graph after the edge "t", and "dg", which leaves it    *)
(* within the edge "do|g|s"                                                *)
StrayBoards ==
    {EmptyBoard,
     Lay(EmptyBoard, <<"t", "s">>, 7, 7, TRUE),
     Lay(EmptyBoard, <<"d", "g">>, 7, 7, TRUE)}

StrayInit ==
    /\ dawg = WordDb
    /\ lastword = <<>>
    /\ source = "game"
    /\ pc = "game"
    /\ filter = "nofilter"
    /\ nread = 0
    /\ word = <<>>
    /\ outcome = "none"
    /\ stream = <<>>
    /\ added = {}
    /\ infiles = <<>>
    /\ board \in StrayBoards
    /\ rack \in Racks
    /\ lpn = [kind |-> "None"]
    /\ axno = 0
    /\ axis = <<>>
    /\ candidates = <<>>
    /\ gpc = "start"
    /\ order = IcelandicOrder

StraySpec == StrayInit /\ [][GenNext]_vars

(* p is the start of the word w *)
StartOfWord(p, w) == Len(p) <= Len(w) /\ SubSeq(w, 1, Len(p)) = p

(* no word of the graph starts with p *)
Missing(p) == \A w \in LangOf(dawg, RootDict) : ~StartOfWord(p, w)

(* the navigator did not move on at a letter that is not the next of its   *)
(* prefix                                                                  *)
StaysAtMismatch(nav) ==
    \A p \in 1..Len(nav.calls) :
        (/\ nav.calls[p].op \in {"push_edge", "accepts"}
         /\ nav.calls[p].index < nav.lenp
         /\ nav.calls[p].ch # nav.prefix[nav.calls[p].index + 1])
            => ~nav.calls[p].ok /\ nav.calls[p].index2 = nav.calls[p].index

(* the k-th of the runs is a LeftFindNavigator for a left part on the      *)
(* board that no word of the graph starts with                             *)
MissingRun(runs, k) == runs[k].kind = "LF" /\ Missing(runs[k].prefix)

(* no navigation to the right was resumed after the k-th of the runs *)
NotResumed(runs, k) == k = Len(runs) \/ runs[k + 1].calls[1].op # "resume"

(* LeftFindNavigator on the runs, for left parts that are missing *)
MissingHandled(runs) ==
    \A k \in 1..Len(runs) :
        MissingRun(runs, k) =>
            /\ StaysAtMismatch(runs[k])
            /\ runs[k].state = <<>>
            /\ runs[k].err = "ok"
            /\ NotResumed(runs, k)

(* C31 as it is claimed - LeftFindNavigator on a missing prefix: when the  *)
(* letters on the board left of an anchor are the start of no word of the  *)
(* graph, also when they leave the graph within the label of an edge, the  *)
(* navigator does not move on at the letter that does not match, ends with *)
(* state() None and without an error, and no navigation to the right is    *)
(* resumed from the anchor, so that no move is found from it.              *)
C31_Original == gpc = "generate" => MissingHandled(Runs)

----------------------------------------------------------------------------
(* The calls a navigator gets while it is accepting *)

(* accepting() of navigator nav is true with the rack and the index that   *)
(* it had at call c                                                        *)
AcceptingAt(nav, c) ==
    CASE nav.kind = "LP" -> c.index < nav.maxleft
      [] nav.kind = "LF" -> c.index < nav.lenp
      [] nav.kind = "ER" -> /\ c.index < SIZE
                            /\ c.rack # <<>> \/ ~Axis_is_empty(axis, c.index)

(* every call of push_edge and of accepts came while nav was accepting *)
Guarded(nav) ==
    \A p \in 1..Len(nav.calls) :
        nav.calls[p].op \in {"push_edge", "accepts"} => AcceptingAt(nav, nav.calls[p])

(* all calls of the navigators of runs came while they were accepting,    *)
(* and none of them raised an error                                        *)
GuardedRuns(runs) == \A k \in 1..Len(runs) : Guarded(runs[k]) /\ runs[k].err = "ok"

TurnedBack(nav, p) == nav.calls[p + 1].op \in {"pop_edge", "done"}

(* the runs have one of ExtendRightNavigator that came to the edge of the  *)
(* board with tiles in its rack, within the label "a|s" of an edge, and    *)
(* turned back, after a LeftFindNavigator that came to the end of its      *)
(* prefix at a node that has edges                                         *)
CameToTheEdge(runs) ==
    \E k \in 1..Len(runs) :
        /\ runs[k].kind = "ER"
        /\ \E p \in 1..Len(runs[k].calls) :
              /\ runs[k].calls[p].op = "accept"
              /\ runs[k].calls[p].matched = <<"t", "a">>
              /\ runs[k].calls[p].index2 = SIZE
              /\ runs[k].calls[p].rack2 # <<>>
              /\ TurnedBack(runs[k], p)
        /\ \E j \in 1..(k - 1) :
              /\ runs[j].kind = "LF"
              /\ runs[j].state # <<>>
              /\ runs[j].state[1].nextnode # None

----------------------------------------------------------------------------
(* The end of a traversal *)

(* accepting() of navigator nav is true with the rack and the index that   *)
(* call c left                                                             *)
AcceptingAfter(nav, c) == AcceptingAt(nav, [index |-> c.index2, rack |-> c.rack2])

(* after a pop_edge that returned False no edge is offered and no letter   *)
(* is given to the navigator: what follows are the calls of pop_edge for   *)
(* the edges around it, and done()                                         *)
StopsAtPop(nav) ==
    \A p \in 1..Len(nav.calls) :
        (nav.calls[p].op = "pop_edge" /\ ~nav.calls[p].ok) =>
            \A q \in (p + 1)..Len(nav.calls) : nav.calls[q].op \in {"pop_edge", "done"}

(* after a call that leaves the navigator not accepting, no letter is      *)
(* given to accepts and no edge is offered                                 *)
StopsAtAccepting(nav) ==
    \A p \in 1..(Len(nav.calls) - 1) :
        ~AcceptingAfter(nav, nav.calls[p]) =>
            nav.calls[p + 1].op \notin {"accepts", "push_edge"}

(* done() is the last call, and is called once *)
EndsWithDone(nav) ==
    /\ nav.calls # <<>>
    /\ \A p \in 1..Len(nav.calls) : nav.calls[p].op = "done" <=> p = Len(nav.calls)

(* a traversal honours what the navigator says *)
Honoured(nav) ==
    /\ StopsAtPop(nav)
    /\ StopsAtAccepting(nav)
    /\ EndsWithDone(nav)
    /\ nav.kind = "LF" => \A p \in 1..Len(nav.calls) :
                              nav.calls[p].op = "pop_edge" => ~nav.calls[p].ok

HonouredRuns(runs) == \A k \in 1..Len(runs) : Honoured(runs[k])

(* C33 - cancellation is honoured: after a navigator's pop_edge returns    *)
(* False, as that of LeftFindNavigator always does, no further edge of the *)
(* node is offered - no push_edge, accepts or accept follows - and the     *)
(* traversal ends with done(); and once accepting() is false no further    *)
(* letter of the edge is given to accepts.                                 *)
C33_Cancellation ==
    /\ lpn.kind = "LP" => Honoured(lpn)
    /\ gpc = "generate" => HonouredRuns(Runs)

(* the number of edges of the root that were offered to the navigator      *)
(* before the first pop_edge                                               *)
RECURSIVE OfferedFirst(_, _)
OfferedFirst(calls, p) ==
    IF p > Len(calls) \/ calls[p].op = "pop_edge" THEN 0
    ELSE OfferedFirst(calls, p + 1) + (IF calls[p].op = "push_edge" THEN 1 ELSE 0)

(* a LeftFindNavigator left an edge of the root that is not the last, and  *)
(* one left an edge below the root; a run of ExtendRightNavigator stopped  *)
(* accepting after letters that the label of the edge goes on from         *)
CancelledRuns(runs) ==
    /\ \E k \in 1..Len(runs) :
          /\ runs[k].kind = "LF"
          /\ \E p \in 1..Len(runs[k].calls) : runs[k].calls[p].op = "pop_edge"
          /\ OfferedFirst(runs[k].calls, 1) < Len(dawg.heap[RootDict])
    /\ \E k \in 1..Len(runs) :
          /\ runs[k].kind = "LF"
          /\ Pops(runs[k].calls, Len(runs[k].calls)) = 2
    /\ \E k \in 1..Len(runs) :
          /\ runs[k].kind = "ER"
          /\ \E p \in 1..Len(runs[k].calls) :
                /\ runs[k].calls[p].op = "accept"
                /\ runs[k].calls[p].matched
                      \in {<<"t", "a">>, <<"d", "o">>, <<"d", "o", "g">>, <<"e", "a", "t">>}
                /\ ~AcceptingAfter(runs[k], runs[k].calls[p])

C33_Witness == gpc = "generate" /\ CancelledRuns(Runs)

----------------------------------------------------------------------------
(* The lines of an input file as they are read, with their line ends *)

(* The most lines the input files of such a build hold together *)
MaxText == 3

(* The lines of a file that end with LF or with CR/LF (_load's docstring,  *)
(* line 580): blank lines, short words, a word of MAXLEN - 1 letters and   *)
(* lines of MAXLEN letters and more                                        *)
TextLines ==
    { <<LF>>, <<CR, LF>>, <<"a", LF>>, <<"b", CR, LF>>,
      Repeat("a", MAXLEN - 1) \o <<LF>>, Repeat("a", MAXLEN) \o <<CR, LF>>,
      Repeat("a", MAXLEN + 1) \o <<LF>> }

(* The last line of a file may be without a line end *)
OpenLines == { Repeat("a", MAXLEN - 1), Repeat("a", MAXLEN) }

(* _load's docstring, lines 581-582: the words of a file are ascending *)
AscendingText(content) ==
    \A i, j \in 1..Len(content) :
        (i < j /\ ValidWord(Chop(content[i])) /\ ValidWord(Chop(content[j])))
            => strcoll(Chop(content[i]), Chop(content[j])) <= 0

TextFiles(n) ==
    {content \in [1..n -> TextLines \cup OpenLines] :
        /\ \A i \in 1..(n - 1) : content[i] \in TextLines
        /\ AscendingText(content)}

(* A build that merges two files of such lines *)
ReaderInit ==
    /\ dawg = NewDawg
    /\ lastword = <<>>
    /\ source = "merge"
    /\ pc = "load"
    /\ filter = "nofilter"
    /\ nread = 0
    /\ word = <<>>
    /\ outcome = "none"
    /\ stream = <<>>
    /\ added = {}
    /\ GenIdle
    /\ \E n1 \in 0..MaxText : \E n2 \in 0..(MaxText - n1) :
          \E c1 \in TextFiles(n1), c2 \in TextFiles(n2) :
              infiles = <<OpenFile(c1), OpenFile(c2)>>

ReaderSpec == ReaderInit /\ [][MergeNext]_vars

(* a line that is no word: blank, or of MAXLEN letters or more *)
NoWord(line) == Chop(line) = <<>> \/ Len(Chop(line)) >= MAXLEN

(* the word a file has is its last line read, without the line end, and is *)
(* neither blank nor of MAXLEN letters or more                             *)
Delivered(f) ==
    has_word(f) =>
        /\ f.pos >= 1
        /\ f.nxt = Chop(f.content[f.pos])
        /\ f.nxt # <<>>
        /\ Len(f.nxt) < MAXLEN
        /\ \A p \in 1..Len(f.nxt) : f.nxt[p] \notin {CR, LF}

(* the lines that read_word has passed over, from file state f to g *)
PassedOver(f, g) == (f.pos + 1)..(IF g.eof THEN Len(g.content) ELSE g.pos - 1)

(* C34 - the reader delivers valid words only: the word an input file has  *)
(* is never blank and never of 48 letters or more; the lines read_word     *)
(* passes over are exactly such lines, and it goes on to the next line     *)
(* after them; so no word given to add_word during _load is too long and   *)
(* the build is not aborted.                                               *)
C34_ReaderDelivers ==
    /\ [](/\ \A i \in 1..Len(infiles) : Delivered(infiles[i])
          /\ outcome \notin {"ValueError", "discarded"}
          /\ pc # "aborted")
    /\ [][\A i \in 1..Len(infiles) :
            /\ infiles'[i] # infiles[i] =>
                  /\ has_word(infiles[i])
                  /\ \A k \in PassedOver(infiles[i], infiles'[i]) : NoWord(infiles[i].content[k])
                  /\ infiles'[i].eof \/ infiles'[i].pos > infiles[i].pos
            /\ outcome' = "added" => word' # <<>> /\ Len(word') < MAXLEN]_vars

(* a finished merge of a file in which a blank line that ends with CR/LF   *)
(* and a line of 48 letters come before a word of 47 letters, which was    *)
(* added                                                                   *)
C34_Witness ==
    /\ Done
    /\ source = "merge"
    /\ Repeat("a", MAXLEN - 1) \in added
    /\ \E i \in 1..Len(infiles) :
          /\ infiles[i].eof
          /\ \E k, m, n \in 1..Len(infiles[i].content) :
                /\ k < n /\ m < n
                /\ infiles[i].content[k] = <<CR, LF>>
                /\ Len(Chop(infiles[i].content[m])) = MAXLEN
                /\ Len(Chop(infiles[i].content[n])) = MAXLEN - 1

----------------------------------------------------------------------------
(* The axes of a board, each generated for alone and in another order *)

(* lines 641-648: the axis with the number n, made from the board and the  *)
(* rack                                                                    *)
AxisAt(n) ==
    init_crosschecks(IF n < SIZE THEN NewAxis(n, TRUE, rack) ELSE NewAxis(n - SIZE, FALSE, rack),
                     board, rack_bit_pattern(rack))

(* the candidates of axis n, found with an empty list of candidates *)
FoundOn(n) == generate_moves(AxisAt(n), lpn, <<>>).cands

(* the candidates after the axes ord[k], ord[k + 1], ... were gone through *)
RECURSIVE InOrder(_, _, _)
InOrder(ord, k, cands) ==
    IF k > Len(ord) THEN cands
    ELSE InOrder(ord, k + 1, generate_moves(AxisAt(ord[k]), lpn, cands).cands)

(* the axes from the last column back to the first row, and the columns    *)
(* before the rows                                                         *)
AxisOrders ==
    { [k \in 1..(2 * SIZE) |-> 2 * SIZE - k],
      [k \in 1..(2 * SIZE) |-> IF k <= SIZE THEN SIZE + k - 1 ELSE k - SIZE - 1] }

(* s and t hold the same elements, each as many times *)
SameBag(s, t) ==
    /\ Len(s) = Len(t)
    /\ \A i \in 1..Len(s) :
          Cardinality({j \in 1..Len(s) : s[j] = s[i]}) = Cardinality({j \in 1..Len(t) : t[j] = s[i]})

(* s is the beginning of t *)
BeginsWith(s, t) == Len(s) <= Len(t) /\ SubSeq(t, 1, Len(s)) = s

----------------------------------------------------------------------------
(* Two builders in one process.  _DawgNode._nextid (line 137) is an        *)
(* attribute of the class: every node made, of whichever _Dawg, takes its  *)
(* id from it and moves it on (lines 147-148).  Each _Dawg has its own     *)
(* dicts and its own table of unique nodes (lines 184-192).  Here dawg is  *)
(* the pair of the two _Dawg objects, and the field nextid of each is the  *)
(* one class attribute; infiles holds the word list of each builder and    *)
(* the number of words it has added, stream the text each has written.     *)

(* The word lists of the builders, each ascending *)
PairLists ==
    { << <<"a", "a", "b">>, <<"a", "a", "c">>, <<"a", "b", "b">>, <<"a", "b", "c">> >>,
      << <<"c", "a", "r">>, <<"c", "a", "r", "s">>, <<"c", "a", "t">>, <<"c", "a", "t", "s">> >>,
      << <<"d", "o">>, <<"d", "o", "g">>, <<"d", "o", "g", "s">>, <<"d", "o", "n", "e">> >>,
      << <<"a", "b">>, <<"b">> >> }

PairInit ==
    /\ dawg = <<NewDawg, NewDawg>>
    /\ lastword = <<>>
    /\ source = "direct"
    /\ pc = "pair"
    /\ filter = "nofilter"
    /\ nread = 0
    /\ word = <<>>
    /\ outcome = "none"
    /\ stream = << <<>>, <<>> >>
    /\ added = {}
    /\ \E ws1, ws2 \in PairLists :
          /\ ws1 # ws2
          /\ infiles = << [content |-> ws1, pos |-> 0], [content |-> ws2, pos |-> 0] >>
    /\ GenIdle

(* the two _Dawg objects after a call has made S of the i-th: the class    *)
(* attribute _nextid is where the call has left it, for both               *)
AfterCall(i, S) == [j \in 1..2 |-> IF j = i THEN S ELSE [dawg[j] EXCEPT !.nextid = S.nextid]]

(* the i-th builder adds the next word of its list *)
PairAdd(i) ==
    /\ pc = "pair"
    /\ stream[i] = <<>>
    /\ infiles[i].pos < Len(infiles[i].content)
    /\ LET w == infiles[i].content[infiles[i].pos + 1]
           S == add_word(dawg[i], w)
       IN /\ dawg' = AfterCall(i, S)
          /\ word' = w
          /\ outcome' = IF S.err = "ok" THEN "added" ELSE S.err
          /\ pc' = IF S.err = "ok" THEN "pair" ELSE "aborted"
    /\ infiles' = [infiles EXCEPT ![i].pos = @ + 1]
    /\ UNCHANGED <<lastword, source, filter, nread, stream, added>>
    /\ UNCHANGED genvars

(* the i-th builder finishes its graph and writes it as text *)
PairFinish(i) ==
    /\ pc = "pair"
    /\ stream[i] = <<>>
    /\ infiles[i].pos = Len(infiles[i].content)
    /\ LET S == finish(dawg[i])
       IN /\ dawg' = AfterCall(i, CacheAll(S, 1))
          /\ stream' = [stream EXCEPT ![i] = write_text(S)]
          /\ outcome' = IF S.err = "ok" THEN "finish" ELSE S.err
          /\ pc' = IF S.err = "ok" THEN "pair" ELSE "aborted"
    /\ word' = <<>>
    /\ UNCHANGED <<lastword, source, filter, nread, added, infiles>>
    /\ UNCHANGED genvars

PairNext ==
    \/ \E i \in 1..2 : PairAdd(i)
    \/ \E i \in 1..2 : PairFinish(i)

PairSpec == PairInit /\ [][PairNext]_vars

(* the text a builder writes when it is the only one *)
AloneText(ws) == write_text(finish(AddAll(NewDawg, ws, 1)))

(* the text of each builder that has finished is the text it writes alone *)
SameTextAsAlone ==
    \A i \in 1..2 : stream[i] # <<>> => stream[i] = AloneText(infiles[i].content)

(* a builder that is not called keeps the id its next node will get *)
OwnCounter ==
    \A i \in 1..2 :
        (infiles'[i] = infiles[i] /\ stream'[i] = stream[i]) => dawg'[i].nextid = dawg[i].nextid

(* C36 - the resources of a builder are its own: the table of unique nodes *)
(* and the counter of node ids belong to one builder, so that the calls of *)
(* another builder change neither, and the text each of two interleaved    *)
(* builders writes is the text it writes alone.                            *)
C36_Original == [](pc = "pair" => SameTextAsAlone) /\ [][OwnCounter]_vars

----------------------------------------------------------------------------
(* The tiles of a move, taken again from the rack of the player *)

(* the letters of matched from the k-th on are laid on the squares of the  *)
(* axis from ix on, each empty square taking from the rack r the tile of   *)
(* its letter or else a blank tile: the rack that is left, and whether the *)
(* rack had a blank tile whenever one was taken                            *)
RECURSIVE Replayed(_, _, _, _)
Replayed(matched, k, ix, r) ==
    IF k > Len(matched) THEN [rack |-> r, held |-> TRUE]
    ELSE IF ~Axis_is_empty(axis, ix) THEN Replayed(matched, k + 1, ix + 1, r)
    ELSE IF InStr(matched[k], r) THEN Replayed(matched, k + 1, ix + 1, RemoveFirst(r, matched[k]))
    ELSE LET t == Replayed(matched, k + 1, ix + 1, RemoveFirst(r, "?"))
         IN [t EXCEPT !.held = @ /\ InStr("?", r)]

(* the rack the navigator holds at the call c of accept is, as a multiset, *)
(* what the replay leaves of the player's rack                             *)
ReplayAgrees(c) ==
    LET t == Replayed(c.matched, 1, c.index - Len(c.matched), rack)
    IN /\ Len(t.rack) = Len(c.rack)
       /\ SameBag(t.rack, c.rack)
       /\ t.held

ReplaysAgree(runs) == \A c \in AcceptCalls(runs) : Emitting(c) => (c.ok /\ ReplayAgrees(c))

(* every move found on the axis was emitted at a call of accept, and the   *)
(* tiles of its covers together with the tiles the navigator held at the   *)
(* call are the player's rack                                              *)
CoversAgree(acc) ==
    \A k \in 1..Len(acc.cands) :
        \E c \in AcceptCalls(acc.runs) :
            /\ c.ok
            /\ c.matched = acc.cands[k].word
            /\ c.index - Len(c.matched)
                  = (IF axis.horizontal THEN acc.cands[k].col ELSE acc.cands[k].row)
            /\ SameBag(TilesOf(acc.cands[k]) \o c.rack, rack)

(* C37 - the replay of the covers agrees with the navigation: at every     *)
(* call of accept that emits a move, laying the matched word again from    *)
(* the player's rack, the tile of the letter first and else a blank tile,  *)
(* leaves the tiles the navigator holds, as a multiset and so in number,   *)
(* and the tiles of the covers of the move are the tiles the navigation    *)
(* took; the assert on the lengths never fails; a blank tile is taken only *)
(* when the rack still has one, so no move has more covers with a blank    *)
(* tile than the rack has blank tiles.                                     *)
C37_ReplayAgrees ==
    /\ gpc # "aborted"
    /\ gpc = "generate" => ReplaysAgree(Runs)
    /\ gpc = "generate" => CoversAgree(generate_moves(axis, lpn, <<>>))
    /\ \A k \in 1..Len(candidates) :
          Cardinality({j \in 1..Len(candidates[k].covers) : candidates[k].covers[j].tile = "?"})
              <= Count(rack, "?")

(* a resumed run emits a word whose left part came from the rack: a blank  *)
(* tile was taken for one letter and tiles of their own for the others,    *)
(* and a run emits a word that goes over a tile of the board               *)
ReplaysSeen(runs) ==
    /\ \E k \in 1..Len(runs) :
          /\ runs[k].kind = "ER"
          /\ runs[k].calls[1].op = "resume"
          /\ \E p \in 1..Len(runs[k].calls) :
                LET c == runs[k].calls[p]
                IN /\ c.op = "accept" /\ c.ok
                   /\ Axis_is_empty(axis, c.index - Len(c.matched))
                   /\ InStr("?", rack) /\ ~InStr("?", c.rack)
                   /\ Len(rack) - Len(c.rack) >= 3
    /\ \E c \in AcceptCalls(runs) :
          /\ c.ok
          /\ \E ix \in (c.index - Len(c.matched))..(c.index - 1) : ~Axis_is_empty(axis, ix)
          /\ InStr("?", rack) /\ ~InStr("?", c.rack)

C37_Witness == gpc = "generate" /\ ReplaysSeen(Runs)

----------------------------------------------------------------------------
(* The squares left of an anchor that a left part from the rack may cover *)

(* the squares that generate_moves counts as open left of the anchor i *)
Counted(i) == (i - OpenSquares(axis, i, LastAnchorBefore(axis, i)))..(i - 1)

(* the square j of the axis is empty, is no anchor, and no square next to  *)
(* it, along the axis or across it, has a tile                             *)
Unconstrained(j) ==
    LET rc == coordinate_of(axis, j)
    IN /\ rc \notin DOMAIN board
       /\ Axis_is_empty(axis, j)
       /\ ~axis.sq[j].anchor
       /\ <<rc[1] - 1, rc[2]>> \notin DOMAIN board
       /\ <<rc[1] + 1, rc[2]>> \notin DOMAIN board
       /\ <<rc[1], rc[2] - 1>> \notin DOMAIN board
       /\ <<rc[1], rc[2] + 1>> \notin DOMAIN board

(* the square j of the axis is off the board or has no tile *)
NoTileAt(j) == j < 0 \/ coordinate_of(axis, j) \notin DOMAIN board

(* the runs that were resumed with a left part from the rack, left of an   *)
(* anchor whose left neighbour is empty: the left part lies on counted     *)
(* squares                                                                 *)
LeftPartsFit(runs) ==
    \A k \in 1..Len(runs) :
        (/\ runs[k].kind = "ER"
         /\ runs[k].calls[1].op = "resume"
         /\ runs[k].anchor > 0
         /\ Axis_is_empty(axis, runs[k].anchor - 1)) =>
            LET i == runs[k].anchor
                n == Len(runs[k].calls[1].matched)
            IN /\ axis.sq[i].anchor
               /\ (i - n)..(i - 1) \subseteq Counted(i)
               /\ NoTileAt(i - n - 1)

(* C38 - the squares of a left part are unconstrained: every square that   *)
(* generate_moves counts as open left of an anchor is empty, is no anchor, *)
(* lies right of the anchor before, and has no covered square next to it   *)
(* in either axis; every left part from the rack lies on such squares, so  *)
(* that it forms no word across, and the square left of it has no tile.    *)
C38_LeftSquares ==
    gpc = "generate" =>
        /\ \A i \in 0..(SIZE - 1) :
              axis.sq[i].anchor =>
                  /\ \A j \in Counted(i) :
                        Unconstrained(j) /\ j > LastAnchorBefore(axis, i)
                  /\ \A n \in 1..Min(Cardinality(Counted(i)), Len(rack) - 1) : NoTileAt(i - n - 1)
        /\ LeftPartsFit(Runs)

(* an axis with an anchor whose open squares end at the anchor before, an  *)
(* anchor whose open squares end at an empty square that is closed, a run  *)
(* resumed with a left part of one tile of the rack that takes the one     *)
(* open square of its anchor and emits a move, and a run resumed with a    *)
(* left part of two tiles                                                  *)
LeftSquaresSeen(runs) ==
    /\ \E i \in 0..(SIZE - 1) :
          /\ axis.sq[i].anchor
          /\ Counted(i) # {}
          /\ i - Cardinality(Counted(i)) - 1 = LastAnchorBefore(axis, i)
    /\ \E i \in 0..(SIZE - 1) :
          /\ axis.sq[i].anchor
          /\ Counted(i) # {}
          /\ i - Cardinality(Counted(i)) - 1 > LastAnchorBefore(axis, i)
          /\ Axis_is_empty(axis, i - Cardinality(Counted(i)) - 1)
    /\ \E k \in 1..Len(runs) :
          /\ runs[k].kind = "ER"
          /\ runs[k].calls[1].op = "resume"
          /\ Axis_is_empty(axis, runs[k].anchor - 1)
          /\ Len(runs[k].calls[1].matched) = 1
          /\ Cardinality(Counted(runs[k].anchor)) = 1
          /\ \E p \in 1..Len(runs[k].calls) : runs[k].calls[p].op = "accept" /\ runs[k].calls[p].ok
    /\ \E k \in 1..Len(runs) :
          /\ runs[k].kind = "ER"
          /\ runs[k].calls[1].op = "resume"
          /\ Axis_is_empty(axis, runs[k].anchor - 1)
          /\ Len(runs[k].calls[1].matched) = 2

C38_Witness == gpc = "generate" /\ LeftSquaresSeen(Runs)

----------------------------------------------------------------------------
(* The check that push_edge keeps for accepts *)

(* _check for the letter of the call c, on the rack and at the index the   *)
(* navigator has at the call                                               *)
CheckAt(c) == ER_check(axis, [rack |-> c.rack, index |-> c.index], c.ch)

(* the calls of accepts of an ExtendRightNavigator: a kept check is used   *)
(* only right after the push_edge that kept it, which entered the edge     *)
(* with the same letter, rack and index, and it is what _check gives now;  *)
(* and whether kept or not, the letter is taken if and only if _check does *)
(* not refuse it                                                           *)
Coherent(nav) ==
    \A p \in 1..Len(nav.calls) :
        LET c == nav.calls[p]
        IN c.op = "accepts" =>
              /\ c.ok <=> CheckAt(c) \in {"BOARD_TILE", "RACK_TILE"}
              /\ c.cache # "None" =>
                    /\ c.cache = CheckAt(c)
                    /\ c.cache # "NO"
                    /\ p > 1
                    /\ nav.calls[p - 1].op = "push_edge"
                    /\ nav.calls[p - 1].ok
                    /\ nav.calls[p - 1].ch = c.ch
                    /\ nav.calls[p - 1].rack = c.rack
                    /\ nav.calls[p - 1].index = c.index
              /\ c.cache = "None" => (p > 1 /\ nav.calls[p - 1].op # "push_edge")

CoherentRuns(runs) == \A k \in 1..Len(runs) : runs[k].kind = "ER" => Coherent(runs[k])

(* C39 - the kept check is coherent: whenever accepts(c) of an             *)
(* ExtendRightNavigator uses the value that push_edge has kept, the value  *)
(* is that of _check(c) on the rack and at the index the navigator has     *)
(* now; the value that a refused push_edge or an earlier edge has left is  *)
(* never used for another letter or square.                                *)
C39_CheckCache == gpc = "generate" => CoherentRuns(Runs)

(* a run in which a push_edge was refused and its value was left behind    *)
(* when the next edge was offered, a kept check of a tile of the board and *)
(* one of a tile of the rack were used, and a letter within an edge was    *)
(* checked anew and refused                                                *)
CacheSeen(runs) ==
    \E k \in 1..Len(runs) :
        /\ runs[k].kind = "ER"
        /\ \E p \in 1..Len(runs[k].calls) :
              /\ runs[k].calls[p].op = "push_edge"
              /\ runs[k].calls[p].cache = "NO"
              /\ runs[k].calls[p].ok
        /\ \E p \in 1..Len(runs[k].calls) :
              runs[k].calls[p].op = "accepts" /\ runs[k].calls[p].cache = "BOARD_TILE"
        /\ \E p \in 1..Len(runs[k].calls) :
              runs[k].calls[p].op = "accepts" /\ runs[k].calls[p].cache = "RACK_TILE"
        /\ \E p \in 1..Len(runs[k].calls) :
              /\ runs[k].calls[p].op = "accepts"
              /\ runs[k].calls[p].cache = "None"
              /\ ~runs[k].calls[p].ok

C39_Witness == gpc = "generate" /\ CacheSeen(Runs)

----------------------------------------------------------------------------
(* The end of the merge *)

(* The most lines the input files of a merge that is followed to its end   *)
(* hold together                                                           *)
MaxLive == 4

(* the lines of these files: a blank line and two words, with LF or CR/LF  *)
(* at the end                                                              *)
LiveLines == { <<LF>>, <<"a", LF>>, <<"b", CR, LF>> }

LiveFiles(n) == {content \in [1..n -> LiveLines] : AscendingText(content)}

(* A merge of two files of such lines *)
LiveInit ==
    /\ dawg = NewDawg
    /\ lastword = <<>>
    /\ source = "merge"
    /\ pc = "load"
    /\ filter = "nofilter"
    /\ nread = 0
    /\ word = <<>>
    /\ outcome = "none"
    /\ stream = <<>>
    /\ added = {}
    /\ GenIdle
    /\ \E n1 \in 0..MaxLive : \E n2 \in 0..(MaxLive - n1) :
          \E c1 \in LiveFiles(n1), c2 \in LiveFiles(n2) :
              infiles = <<OpenFile(c1), OpenFile(c2)>>

(* _load is one sequential loop: while it can take a step it takes one *)
MergeLive == LiveInit /\ [][MergeNext]_vars /\ WF_vars(MergeNext)

(* the lines file f has not read yet, and one more while it holds a word *)
Unread(f) == (Len(f.content) - f.pos) + (IF has_word(f) THEN 1 ELSE 0)

RECURSIVE UnreadFrom(_, _)
UnreadFrom(files, i) == IF i > Len(files) THEN 0 ELSE Unread(files[i]) + UnreadFrom(files, i + 1)

(* every file is at its end *)
AllAtEnd == \A i \in 1..Len(infiles) : ~has_word(infiles[i]) /\ infiles[i].pos = Len(infiles[i].content)

(* C40 - the merge loop ends: every round of the loop takes at least one   *)
(* word from a file, so that less is left to read after it; the loop is    *)
(* left only when every file is at its end, where the assert on has_word   *)
(* holds; finish() is then called, and is called once; and every merge     *)
(* comes to that end.                                                      *)
C40_MergeTerminates ==
    /\ <>(pc = "finished" /\ AllAtEnd)
    /\ [][/\ (pc = "load" /\ pc' = "load") =>
                /\ UnreadFrom(infiles', 1) < UnreadFrom(infiles, 1)
                /\ nread' > nread
          /\ (pc = "load" /\ pc' # "load") =>
                /\ AllAtEnd
                /\ pc' = "finished"
                /\ outcome' = "finish"
                /\ infiles' = infiles
          /\ pc # "load" => (pc' # "load" /\ outcome' # "finish" /\ dawg' \in {dawg, CacheAll(dawg, 1)})]_vars

(* a merge of two files with words has come to its end: a word was in both *)
(* files, and a line was passed over                                       *)
C40_Witness ==
    /\ pc = "finished"
    /\ source = "merge"
    /\ AllAtEnd
    /\ \A i \in 1..Len(infiles) : infiles[i].content # <<>>
    /\ Cardinality(added) >= 2
    /\ nread > Cardinality(added)
    /\ \E i \in 1..Len(infiles) : \E k \in 1..Len(infiles[i].content) :
          ~ValidWord(Chop(infiles[i].content[k]))

====
